---- MODULE Spec2Model ----
(***************************************************************************)
(* Embedded terminal emulator (src/src/terminal/emulator.rs), its PTY      *)
(* session (src/src/pty.rs) and the application loop that joins them       *)
(* (src/src/app.rs, src/src/main.rs).                                      *)
(*                                                                         *)
(* Conventions.                                                            *)
(*  - Indices are 0-based as in the Rust source; TLA+ sequences are        *)
(*    1-based, so row r of a grid is lines[r + 1].                         *)
(*  - usize arithmetic: a subtraction below zero and an index or slice out *)
(*    of range abort the program (panic).  Dimensions are at least 1: for  *)
(*    those, debug and release builds agree on which handlers abort.       *)
(*    A panic is recorded in the field `panicked`; nothing runs after it.  *)
(*  - Bytes are short strings: "ESC", "LF", "CR", "BS", "HT", "BEL" for    *)
(*    the control bytes, the character itself for printable ASCII.         *)
(*  - Only single-column characters are printed.                           *)
(***************************************************************************)
EXTENDS Integers, Sequences, FiniteSets, TLC

\* ------------------------------------------------------------------ bounds
MaxCols == 2
MaxRows == 3
MaxScrollback == 2
MaxSteps == 4
MaxLines == 5
MaxStream == 5
MaxOutput == 3
\* the reader thread's and the poll loop's buffer length (4096 in the source),
\* scaled down
ReaderBufLen == 2
MaxCallerBuf == 3
MaxCommands == 2
MaxExitCode == 2
MaxViewSteps == 5
MaxScroll == 2
MaxOpSteps == 3
MaxParam == 4

Min(a, b) == IF a < b THEN a ELSE b
Max(a, b) == IF a > b THEN a ELSE b
\* usize::saturating_sub
SatSub(a, b) == IF a > b THEN a - b ELSE 0

None == <<>>
Some(x) == <<x>>

\* ------------------------------------------------------- cells and lines
\* CellAttributes::default(): every attribute off, default colours.
DefaultAttrs == [intensity |-> "Normal"]

\* Cell::default() / Cell::blank(): a space with default attributes.
BlankCell == [str |-> " ", attrs |-> DefaultAttrs]

\* Line::with_width(width): `width` blank cells.
BlankLine(width) == [i \in 1..width |-> BlankCell]

\* Line::resize(width): truncate or pad with blank cells.
LineResize(line, width) ==
    [i \in 1..width |-> IF i <= Len(line) THEN line[i] ELSE BlankCell]

\* line.get_cell(i).map(|cr| cr.as_cell()).unwrap_or_default(), i 0-based.
GetCellOrDefault(line, i) ==
    IF i + 1 <= Len(line) THEN line[i + 1] ELSE BlankCell

\* ------------------------------------------------------ termwiz Surface
\* Surface::new(width, height): blank grid, cursor at origin.
SurfaceNew(width, height) ==
    [width |-> width, height |-> height,
     lines |-> [r \in 1..height |-> BlankLine(width)],
     attributes |-> DefaultAttrs, xpos |-> 0, ypos |-> 0, panic |-> FALSE]

SurfacePanic(s) == [s EXCEPT !.panic = TRUE]

\* Surface::resize(width, height): rows are added or dropped at the bottom,
\* every line is cut or padded to the width, the position is clamped.
SurfaceResize(s, width, height) ==
    IF s.panic THEN s
    ELSE [s EXCEPT
            !.width = width, !.height = height,
            !.lines = [r \in 1..height |->
                         IF r <= Len(s.lines) THEN LineResize(s.lines[r], width)
                         ELSE BlankLine(width)],
            !.xpos = Min(s.xpos, width - 1),
            !.ypos = Min(s.ypos, height - 1)]

\* Change::CursorPosition { x: Absolute(x), y: Absolute(y) }:
\* compute_position_change clamps to limit - 1.
SurfaceCursorPosition(s, x, y) ==
    IF s.panic THEN s
    ELSE [s EXCEPT !.xpos = Min(x, s.width - 1), !.ypos = Min(y, s.height - 1)]

\* Change::AllAttributes(attrs)
SurfaceAllAttributes(s, attrs) ==
    IF s.panic THEN s ELSE [s EXCEPT !.attributes = attrs]

\* Surface::scroll_screen_up: drop the top line, add a blank one at the bottom.
SurfaceScrollScreenUp(s) ==
    [s EXCEPT !.lines = Append(Tail(s.lines), BlankLine(s.width))]

\* Change::Text(c) for one single-column character: a pending wrap at the
\* right margin is performed first, then the cell is set and xpos advances.
SurfaceText(s, c) ==
    IF s.panic THEN s
    ELSE LET w == IF s.xpos >= s.width
                  THEN IF s.ypos + 1 >= s.height
                       THEN [SurfaceScrollScreenUp(s) EXCEPT !.xpos = 0]
                       ELSE [s EXCEPT !.ypos = s.ypos + 1, !.xpos = 0]
                  ELSE s
         IN IF w.ypos + 1 > Len(w.lines) THEN SurfacePanic(s)
            ELSE [w EXCEPT
                    !.lines[w.ypos + 1] =
                        [i \in 1..Max(Len(w.lines[w.ypos + 1]), w.xpos + 1) |->
                            IF i = w.xpos + 1
                            THEN [str |-> c, attrs |-> w.attributes]
                            ELSE GetCellOrDefault(w.lines[w.ypos + 1], i - 1)],
                    !.xpos = w.xpos + 1]

\* Change::ClearToEndOfLine(ColorAttribute::Default): the surface attributes
\* become the default ones and the cells from xpos to the width are blanked.
SurfaceClearToEndOfLine(s) ==
    IF s.panic THEN s
    ELSE IF s.ypos + 1 > Len(s.lines) THEN SurfacePanic(s)
    ELSE [s EXCEPT
            !.attributes = DefaultAttrs,
            !.lines[s.ypos + 1] =
                [i \in 1..Max(Len(s.lines[s.ypos + 1]), s.width) |->
                    IF i >= s.xpos + 1 /\ i <= s.width THEN BlankCell
                    ELSE GetCellOrDefault(s.lines[s.ypos + 1], i - 1)]]

\* Change::ClearScreen(ColorAttribute::Default)
SurfaceClearScreen(s) ==
    IF s.panic THEN s
    ELSE [s EXCEPT
            !.attributes = DefaultAttrs,
            !.lines = [r \in 1..Len(s.lines) |-> BlankLine(s.width)],
            !.xpos = 0, !.ypos = 0]

\* Change::ScrollRegionUp { first_row, region_size, scroll_count: 1 }:
\* lines[first_row] is replaced by a blank line, then the region
\* lines[first_row .. first_row + region_size] is rotated left by one.
SurfaceScrollRegionUp(s, first_row, region_size) ==
    IF s.panic THEN s
    ELSE IF region_size = 0 THEN s
    ELSE IF first_row >= Len(s.lines) THEN SurfacePanic(s)
    ELSE IF region_size = 1
         THEN [s EXCEPT !.lines[first_row + 1] = BlankLine(s.width)]
    ELSE IF first_row + region_size > Len(s.lines) THEN SurfacePanic(s)
    ELSE [s EXCEPT !.lines =
            [r \in 1..Len(s.lines) |->
                IF r - 1 < first_row \/ r - 1 >= first_row + region_size
                THEN s.lines[r]
                ELSE IF r - 1 = first_row + region_size - 1
                     THEN BlankLine(s.width)
                     ELSE s.lines[r + 1]]]

\* Change::ScrollRegionDown { first_row, region_size, scroll_count: 1 }:
\* the last line of the region is replaced by a blank line, then the region
\* is rotated right by one.
SurfaceScrollRegionDown(s, first_row, region_size) ==
    IF s.panic THEN s
    ELSE IF region_size = 0 THEN s
    ELSE IF first_row + region_size - 1 >= Len(s.lines) THEN SurfacePanic(s)
    ELSE IF region_size = 1
         THEN [s EXCEPT !.lines[first_row + 1] = BlankLine(s.width)]
    ELSE [s EXCEPT !.lines =
            [r \in 1..Len(s.lines) |->
                IF r - 1 < first_row \/ r - 1 >= first_row + region_size
                THEN s.lines[r]
                ELSE IF r - 1 = first_row
                     THEN BlankLine(s.width)
                     ELSE s.lines[r - 1]]]

\* ------------------------------------------------------ escape parser
\* termwiz::escape::parser::Parser (a VT state machine fed one byte at a
\* time, keeping its state between calls of parse_as_vec).
ControlBytes == {"BS", "HT", "LF", "CR", "BEL"}
DigitBytes == {"0", "1", "2", "3", "4", "5", "6", "7", "8", "9"}
\* Bytes 0x40..0x7E that occur in the inputs: finals of CSI sequences and,
\* after ESC, finals of escape sequences.
FinalBytes == {"A", "B", "C", "D", "E", "H", "J", "K", "L", "M", "P",
               "a", "b", "c", "h", "l", "m", "s", "u", "[", "]"}
Bytes == ControlBytes \cup DigitBytes \cup FinalBytes \cup {"ESC", ";", "?"}

DigitValue(b) ==
    CASE b = "0" -> 0 [] b = "1" -> 1 [] b = "2" -> 2 [] b = "3" -> 3
      [] b = "4" -> 4 [] b = "5" -> 5 [] b = "6" -> 6 [] b = "7" -> 7
      [] b = "8" -> 8 [] b = "9" -> 9

\* Parser::new(): ground state, nothing collected.
\* cur is the parameter being read, -1 when it has no digit yet.
ParserNew == [state |-> "Ground", params |-> <<>>, cur |-> -1,
              started |-> FALSE, private |-> FALSE]


\* The parameter list at dispatch: a last parameter is closed if any
\* parameter byte was seen.
ParserParams(p) == IF p.started THEN Append(p.params, p.cur) ELSE <<>>

\* Parameter i (1-based) as a count: absent or 0 means 1.
ParamOr1(ps, i) == IF i <= Len(ps) /\ ps[i] > 0 THEN ps[i] ELSE 1
\* Parameter i (1-based) as a selector: absent means 0.
ParamOr0(ps, i) == IF i <= Len(ps) /\ ps[i] >= 0 THEN ps[i] ELSE 0

\* One SGR parameter: 0 resets, 1 sets bold, 22 sets normal intensity; the
\* other codes set attributes outside the cell model.
DecodeSgr(code) ==
    CASE code <= 0 -> [kind |-> "Sgr", op |-> "Reset"]
      [] code = 1 -> [kind |-> "Sgr", op |-> "Bold"]
      [] code = 22 -> [kind |-> "Sgr", op |-> "NormalIntensity"]
      [] OTHER -> [kind |-> "Sgr", op |-> "Other"]

\* termwiz::escape::csi::CSI::parse: the typed actions of a CSI sequence
\* (one per parameter for SGR and DEC private modes).
DecodeCsi(private, ps, final) ==
    IF private
    THEN IF final \in {"h", "l"}
         THEN [i \in 1..Len(ps) |->
                 [kind |-> "Mode", code |-> ps[i], enable |-> (final = "h")]]
         ELSE << [kind |-> "Unhandled"] >>
    ELSE CASE final = "A" -> << [kind |-> "Cursor", op |-> "Up", n |-> ParamOr1(ps, 1)] >>
           [] final = "B" -> << [kind |-> "Cursor", op |-> "Down", n |-> ParamOr1(ps, 1)] >>
           [] final = "C" -> << [kind |-> "Cursor", op |-> "Right", n |-> ParamOr1(ps, 1)] >>
           [] final = "D" -> << [kind |-> "Cursor", op |-> "Left", n |-> ParamOr1(ps, 1)] >>
           [] final = "E" -> << [kind |-> "Cursor", op |-> "NextLine", n |-> ParamOr1(ps, 1)] >>
           [] final = "H" -> << [kind |-> "Cursor", op |-> "Position",
                                 line |-> ParamOr1(ps, 1), col |-> ParamOr1(ps, 2)] >>
           [] final = "s" /\ ps = <<>> -> << [kind |-> "Cursor", op |-> "SaveCursor"] >>
           [] final = "u" /\ ps = <<>> -> << [kind |-> "Cursor", op |-> "RestoreCursor"] >>
           [] final = "J" /\ ParamOr0(ps, 1) \in 0..3 ->
                  << [kind |-> "Edit", op |-> "EraseInDisplay", sel |-> ParamOr0(ps, 1)] >>
           [] final = "K" /\ ParamOr0(ps, 1) \in 0..2 ->
                  << [kind |-> "Edit", op |-> "EraseInLine", sel |-> ParamOr0(ps, 1)] >>
           [] final = "P" -> << [kind |-> "Edit", op |-> "DeleteCharacter", n |-> ParamOr1(ps, 1)] >>
           [] final = "M" -> << [kind |-> "Edit", op |-> "DeleteLine", n |-> ParamOr1(ps, 1)] >>
           [] final = "L" -> << [kind |-> "Edit", op |-> "InsertLine", n |-> ParamOr1(ps, 1)] >>
           [] final = "m" -> IF ps = <<>> THEN << DecodeSgr(0) >>
                             ELSE [i \in 1..Len(ps) |-> DecodeSgr(ps[i])]
           [] OTHER -> << [kind |-> "Unhandled"] >>

\* The action of an escape sequence ESC <final>.
DecodeEsc(final) ==
    CASE final = "7" -> [kind |-> "Esc", op |-> "DecSaveCursorPosition"]
      [] final = "8" -> [kind |-> "Esc", op |-> "DecRestoreCursorPosition"]
      [] final = "D" -> [kind |-> "Esc", op |-> "Index"]
      [] final = "E" -> [kind |-> "Esc", op |-> "NextLine"]
      [] final = "M" -> [kind |-> "Esc", op |-> "ReverseIndex"]
      [] final = "c" -> [kind |-> "Esc", op |-> "FullReset"]
      [] OTHER -> [kind |-> "Unhandled"]

ControlOf(b) ==
    CASE b = "BS" -> "Backspace" [] b = "HT" -> "HorizontalTab"
      [] b = "LF" -> "LineFeed" [] b = "CR" -> "CarriageReturn"
      [] b = "BEL" -> "Bell"

\* A state entered with nothing collected (the collected parameters are read
\* at dispatch only and cleared on the next entry, so they are dropped here
\* as soon as the sequence ends).
ParserGoto(st) ==
    [state |-> st, params |-> <<>>, cur |-> -1, started |-> FALSE, private |-> FALSE]

\* One byte through the state machine: the next parser state and the actions
\* it emits, if any.
ParserAdvance(p, b) ==
    IF b = "ESC" THEN [parser |-> ParserGoto("Escape"), actions |-> <<>>]
    ELSE CASE p.state = "Ground" ->
                IF b \in ControlBytes
                THEN [parser |-> p, actions |-> << [kind |-> "Control", code |-> ControlOf(b)] >>]
                ELSE [parser |-> p, actions |-> << [kind |-> "Print", c |-> b] >>]
           [] p.state = "Escape" ->
                IF b \in ControlBytes
                THEN [parser |-> p, actions |-> << [kind |-> "Control", code |-> ControlOf(b)] >>]
                ELSE IF b = "[" THEN [parser |-> ParserGoto("CsiEntry"), actions |-> <<>>]
                ELSE IF b = "]" THEN [parser |-> ParserGoto("OscString"), actions |-> <<>>]
                ELSE IF b = "P" THEN [parser |-> ParserGoto("DcsString"), actions |-> <<>>]
                ELSE IF b \in {";", "?"} \/ b \in DigitBytes \ {"7", "8"}
                     THEN [parser |-> ParserGoto("Ground"), actions |-> << [kind |-> "Unhandled"] >>]
                ELSE [parser |-> ParserGoto("Ground"), actions |-> << DecodeEsc(b) >>]
           [] p.state \in {"CsiEntry", "CsiParam"} ->
                IF b \in ControlBytes
                THEN [parser |-> p, actions |-> << [kind |-> "Control", code |-> ControlOf(b)] >>]
                ELSE IF b \in DigitBytes
                     THEN [parser |-> [p EXCEPT !.state = "CsiParam", !.started = TRUE,
                                         !.cur = (IF p.cur < 0 THEN 0 ELSE p.cur * 10) + DigitValue(b)],
                           actions |-> <<>>]
                ELSE IF b = ";"
                     THEN [parser |-> [p EXCEPT !.state = "CsiParam", !.started = TRUE,
                                         !.params = Append(p.params, p.cur), !.cur = -1],
                           actions |-> <<>>]
                ELSE IF b = "?"
                     THEN IF p.state = "CsiEntry"
                          THEN [parser |-> [p EXCEPT !.state = "CsiParam", !.private = TRUE],
                                actions |-> <<>>]
                          ELSE [parser |-> ParserGoto("CsiIgnore"), actions |-> <<>>]
                ELSE [parser |-> ParserGoto("Ground"),
                      actions |-> DecodeCsi(p.private, ParserParams(p), b)]
           [] p.state = "CsiIgnore" ->
                IF b \in ControlBytes
                THEN [parser |-> p, actions |-> << [kind |-> "Control", code |-> ControlOf(b)] >>]
                ELSE IF b \in FinalBytes
                     THEN [parser |-> ParserGoto("Ground"), actions |-> <<>>]
                ELSE [parser |-> p, actions |-> <<>>]
           [] p.state = "OscString" ->
                IF b = "BEL"
                THEN [parser |-> ParserGoto("Ground"), actions |-> << [kind |-> "Osc"] >>]
                ELSE [parser |-> p, actions |-> <<>>]
           [] p.state = "DcsString" -> [parser |-> p, actions |-> <<>>]

\* -------------------------------------------------- EmbeddedTerminal
\* EmbeddedTerminal::new(config)
TerminalNew(cols, rows, scrollback) ==
    [surface |-> SurfaceNew(cols, rows),
     parser |-> ParserNew,
     config |-> [cols |-> cols, rows |-> rows, scrollback |-> scrollback],
     cursor |-> [col |-> 0, row |-> 0],
     scrollback |-> <<>>,
     scroll_offset |-> 0,
     in_alternate_screen |-> FALSE,
     saved_primary |-> None,
     follow_mode |-> TRUE,
     current_attrs |-> DefaultAttrs,
     saved_cursor |-> None,
     application_cursor_keys |-> FALSE,
     mouse_reporting |-> FALSE,
     panicked |-> FALSE]

Panicked(t) == t.panicked \/ t.surface.panic
Panic(t) == [t EXCEPT !.panicked = TRUE]

\* EmbeddedTerminal::resize
resize(t, cols, rows) ==
    IF Panicked(t) THEN t
    ELSE [t EXCEPT !.config.cols = cols, !.config.rows = rows,
                   !.surface = SurfaceResize(t.surface, cols, rows)]

RECURSIVE EnforceMaxScrollback(_, _)
\* while self.scrollback.len() > max { self.scrollback.remove(0) }
EnforceMaxScrollback(sb, max) ==
    IF Len(sb) > max THEN EnforceMaxScrollback(Tail(sb), max) ELSE sb

\* Mutant of push_to_scrollback: the row is inserted at the front.
push_to_scrollback_front(t, line) ==
    [t EXCEPT !.scrollback =
        EnforceMaxScrollback(<<line>> \o t.scrollback, t.config.scrollback)]

\* EmbeddedTerminal::push_to_scrollback
push_to_scrollback(t, line) ==
    [t EXCEPT !.scrollback =
        EnforceMaxScrollback(Append(t.scrollback, line), t.config.scrollback)]

\* Mutant of scroll_screen_up: the bottom line is archived instead of the top.
scroll_screen_up_last(t) ==
    IF Panicked(t) THEN t
    ELSE LET archived ==
                 IF Len(t.surface.lines) > 0
                 THEN push_to_scrollback(t,
                        [i \in 1..t.config.cols |->
                            GetCellOrDefault(t.surface.lines[Len(t.surface.lines)], i - 1)])
                 ELSE t
             s1 == SurfaceScrollRegionUp(archived.surface, 0, t.config.rows)
         IN [archived EXCEPT !.surface =
                SurfaceClearToEndOfLine(
                    SurfaceCursorPosition(s1, 0, t.config.rows - 1))]

\* EmbeddedTerminal::scroll_screen_up(1)
scroll_screen_up(t) ==
    IF Panicked(t) THEN t
    ELSE LET archived ==
                 IF Len(t.surface.lines) > 0
                 THEN push_to_scrollback(t,
                        [i \in 1..t.config.cols |->
                            GetCellOrDefault(t.surface.lines[1], i - 1)])
                 ELSE t
             s1 == SurfaceScrollRegionUp(archived.surface, 0, t.config.rows)
         IN [archived EXCEPT !.surface =
                SurfaceClearToEndOfLine(
                    SurfaceCursorPosition(s1, 0, t.config.rows - 1))]

\* EmbeddedTerminal::scroll_to_bottom
scroll_to_bottom(t) == [t EXCEPT !.scroll_offset = 0, !.follow_mode = TRUE]

\* set_follow_mode that only assigns the flag.
set_follow_mode_flag_only(t, follow) == [t EXCEPT !.follow_mode = follow]

\* EmbeddedTerminal::set_follow_mode
set_follow_mode(t, follow) ==
    IF follow THEN scroll_to_bottom([t EXCEPT !.follow_mode = TRUE])
    ELSE [t EXCEPT !.follow_mode = FALSE]

\* get_row that reads the live grid at the viewport row whatever the offset.
get_row_live_only(t, viewport_row) ==
    IF viewport_row < Len(t.surface.lines)
    THEN [i \in 1..t.config.cols |->
             GetCellOrDefault(t.surface.lines[viewport_row + 1], i - 1)]
    ELSE [i \in 1..t.config.cols |-> BlankCell]

\* EmbeddedTerminal::get_row: the cells of viewport row viewport_row (0-based).
get_row(t, viewport_row) ==
    LET total_scrollback == Len(t.scrollback)
        scrollback_row == SatSub(total_scrollback, t.scroll_offset) + viewport_row
        actual_row == IF t.scroll_offset > 0
                      THEN scrollback_row - total_scrollback
                      ELSE viewport_row
    IN IF t.scroll_offset > 0 /\ scrollback_row < total_scrollback
       THEN t.scrollback[scrollback_row + 1]
       ELSE IF actual_row < Len(t.surface.lines)
            THEN [i \in 1..t.config.cols |->
                     GetCellOrDefault(t.surface.lines[actual_row + 1], i - 1)]
            ELSE [i \in 1..t.config.cols |-> BlankCell]

\* EmbeddedTerminal::get_visible_rows
get_visible_rows(t) == [r \in 1..t.config.rows |-> get_row(t, r - 1)]

\* EmbeddedTerminal::set_scroll_offset
set_scroll_offset(t, offset) ==
    LET max_offset == Len(t.scrollback)
        o == Min(offset, max_offset)
    IN [t EXCEPT !.scroll_offset = o,
                 !.follow_mode = IF o > 0 THEN FALSE ELSE t.follow_mode]

\* EmbeddedTerminal::scroll_up
scroll_up(t, lines) ==
    LET max_offset == Len(t.scrollback)
    IN [t EXCEPT !.scroll_offset = Min(t.scroll_offset + lines, max_offset),
                 !.follow_mode = FALSE]

\* EmbeddedTerminal::scroll_down
scroll_down(t, lines) ==
    LET o == SatSub(t.scroll_offset, lines)
    IN [t EXCEPT !.scroll_offset = o,
                 !.follow_mode = IF o = 0 THEN TRUE ELSE t.follow_mode]

\* EmbeddedTerminal::on_content_added
on_content_added(t) ==
    IF Panicked(t) THEN t
    ELSE IF t.follow_mode THEN scroll_to_bottom(t) ELSE t

\* EmbeddedTerminal::clear
clear(t) ==
    [t EXCEPT !.scrollback = <<>>,
              !.scroll_offset = 0,
              !.cursor = [col |-> 0, row |-> 0],
              !.current_attrs = DefaultAttrs,
              !.surface = SurfaceNew(t.config.cols, t.config.rows)]

\* EmbeddedTerminal::newline
newline(t) ==
    IF Panicked(t) THEN t
    ELSE LET down == [t EXCEPT !.cursor.row = t.cursor.row + 1]
         IN IF down.cursor.row >= down.config.rows
            THEN LET scrolled == scroll_screen_up(down)
                 IN IF Panicked(scrolled) THEN scrolled
                    ELSE [scrolled EXCEPT !.cursor.row = scrolled.config.rows - 1]
            ELSE down

\* print_char that stays on the last column instead of wrapping.
print_char_no_wrap(t, c) ==
    IF Panicked(t) THEN t
    ELSE LET s == SurfaceText(
                    SurfaceAllAttributes(
                      SurfaceCursorPosition(t.surface, t.cursor.col, t.cursor.row),
                      t.current_attrs),
                    c)
             printed == [t EXCEPT !.surface = s, !.cursor.col = t.cursor.col + 1]
         IN IF Panicked(printed) THEN printed
            ELSE IF printed.cursor.col >= printed.config.cols
                 THEN [printed EXCEPT !.cursor.col = printed.config.cols - 1]
                 ELSE printed

\* EmbeddedTerminal::print_char
print_char(t, c) ==
    IF Panicked(t) THEN t
    ELSE LET s == SurfaceText(
                    SurfaceAllAttributes(
                      SurfaceCursorPosition(t.surface, t.cursor.col, t.cursor.row),
                      t.current_attrs),
                    c)
             printed == [t EXCEPT !.surface = s, !.cursor.col = t.cursor.col + 1]
         IN IF Panicked(printed) THEN printed
            ELSE IF printed.cursor.col >= printed.config.cols
                 THEN newline([printed EXCEPT !.cursor.col = 0])
                 ELSE printed

\* EmbeddedTerminal::handle_control
handle_control(t, code) ==
    CASE code = "Backspace" -> [t EXCEPT !.cursor.col = SatSub(t.cursor.col, 1)]
      [] code = "HorizontalTab" ->
            LET col == ((t.cursor.col \div 8) + 1) * 8
            IN IF col >= t.config.cols
               THEN [t EXCEPT !.cursor.col = t.config.cols - 1]
               ELSE [t EXCEPT !.cursor.col = col]
      [] code = "LineFeed" -> newline(t)
      [] code = "CarriageReturn" -> [t EXCEPT !.cursor.col = 0]
      [] OTHER -> t

\* handle_cursor with an absolute position that is not clamped to the grid.
handle_cursor_unclamped(t, a) ==
    CASE a.op = "Up" -> [t EXCEPT !.cursor.row = SatSub(t.cursor.row, a.n)]
      [] a.op = "Down" ->
            [t EXCEPT !.cursor.row = Min(t.cursor.row + a.n, t.config.rows - 1)]
      [] a.op = "Left" -> [t EXCEPT !.cursor.col = SatSub(t.cursor.col, a.n)]
      [] a.op = "Right" ->
            [t EXCEPT !.cursor.col = Min(t.cursor.col + a.n, t.config.cols - 1)]
      [] a.op = "Position" ->
            [t EXCEPT !.cursor.row = SatSub(a.line, 1),
                      !.cursor.col = SatSub(a.col, 1)]
      [] a.op = "SaveCursor" -> [t EXCEPT !.saved_cursor = Some(t.cursor)]
      [] a.op = "RestoreCursor" ->
            IF t.saved_cursor # None
            THEN [t EXCEPT !.cursor = t.saved_cursor[1]] ELSE t
      [] a.op = "NextLine" ->
            [t EXCEPT !.cursor.col = 0,
                      !.cursor.row = Min(t.cursor.row + a.n, t.config.rows - 1)]
      [] OTHER -> t

\* handle_cursor with relative moves of one cell whatever the count.
handle_cursor_single_step(t, a) ==
    CASE a.op = "Up" -> [t EXCEPT !.cursor.row = SatSub(t.cursor.row, 1)]
      [] a.op = "Down" ->
            [t EXCEPT !.cursor.row = Min(t.cursor.row + 1, t.config.rows - 1)]
      [] a.op = "Left" -> [t EXCEPT !.cursor.col = SatSub(t.cursor.col, 1)]
      [] a.op = "Right" ->
            [t EXCEPT !.cursor.col = Min(t.cursor.col + 1, t.config.cols - 1)]
      [] a.op = "Position" ->
            [t EXCEPT !.cursor.row = Min(SatSub(a.line, 1), t.config.rows - 1),
                      !.cursor.col = Min(SatSub(a.col, 1), t.config.cols - 1)]
      [] a.op = "SaveCursor" -> [t EXCEPT !.saved_cursor = Some(t.cursor)]
      [] a.op = "RestoreCursor" ->
            IF t.saved_cursor # None
            THEN [t EXCEPT !.cursor = t.saved_cursor[1]] ELSE t
      [] a.op = "NextLine" ->
            [t EXCEPT !.cursor.col = 0,
                      !.cursor.row = Min(t.cursor.row + a.n, t.config.rows - 1)]
      [] OTHER -> t

\* EmbeddedTerminal::handle_cursor
handle_cursor(t, a) ==
    CASE a.op = "Up" -> [t EXCEPT !.cursor.row = SatSub(t.cursor.row, a.n)]
      [] a.op = "Down" ->
            [t EXCEPT !.cursor.row = Min(t.cursor.row + a.n, t.config.rows - 1)]
      [] a.op = "Left" -> [t EXCEPT !.cursor.col = SatSub(t.cursor.col, a.n)]
      [] a.op = "Right" ->
            [t EXCEPT !.cursor.col = Min(t.cursor.col + a.n, t.config.cols - 1)]
      [] a.op = "Position" ->
            [t EXCEPT !.cursor.row = Min(SatSub(a.line, 1), t.config.rows - 1),
                      !.cursor.col = Min(SatSub(a.col, 1), t.config.cols - 1)]
      [] a.op = "SaveCursor" -> [t EXCEPT !.saved_cursor = Some(t.cursor)]
      [] a.op = "RestoreCursor" ->
            IF t.saved_cursor # None
            THEN [t EXCEPT !.cursor = t.saved_cursor[1]] ELSE t
      [] a.op = "NextLine" ->
            [t EXCEPT !.cursor.col = 0,
                      !.cursor.row = Min(t.cursor.row + a.n, t.config.rows - 1)]
      [] OTHER -> t

RECURSIVE SurfaceTextN(_, _, _)
\* n times Change::Text(c)
SurfaceTextN(s, c, n) ==
    IF n = 0 THEN s ELSE SurfaceTextN(SurfaceText(s, c), c, n - 1)

RECURSIVE ClearRows(_, _, _)
\* for y in from..to: CursorPosition(0, y); ClearToEndOfLine
ClearRows(s, from, to) ==
    IF from >= to THEN s
    ELSE ClearRows(SurfaceClearToEndOfLine(SurfaceCursorPosition(s, 0, from)),
                   from + 1, to)

RECURSIVE ScrollRegionUpN(_, _, _, _)
ScrollRegionUpN(s, first_row, region_size, n) ==
    IF n = 0 THEN s
    ELSE ScrollRegionUpN(SurfaceScrollRegionUp(s, first_row, region_size),
                         first_row, region_size, n - 1)

RECURSIVE ScrollRegionDownN(_, _, _, _)
ScrollRegionDownN(s, first_row, region_size, n) ==
    IF n = 0 THEN s
    ELSE ScrollRegionDownN(SurfaceScrollRegionDown(s, first_row, region_size),
                           first_row, region_size, n - 1)

\* EraseScrollback that also clears the live grid.
erase_scrollback_and_grid(t) ==
    [t EXCEPT !.scrollback = <<>>, !.surface = SurfaceClearScreen(t.surface)]

\* handle_edit, EraseInDisplay::EraseScrollback: self.scrollback.clear()
erase_scrollback(t) ==
    [t EXCEPT !.scrollback = <<>>]

\* EmbeddedTerminal::handle_edit
handle_edit(t, a) ==
    LET s == t.surface
        col == t.cursor.col
        row == t.cursor.row
    IN
    CASE a.op = "EraseInLine" /\ a.sel = 0 ->
            [t EXCEPT !.surface =
                SurfaceClearToEndOfLine(SurfaceCursorPosition(s, col, row))]
      [] a.op = "EraseInLine" /\ a.sel = 1 ->
            [t EXCEPT !.surface =
                SurfaceTextN(SurfaceCursorPosition(s, 0, row), " ", col + 1)]
      [] a.op = "EraseInLine" /\ a.sel = 2 ->
            [t EXCEPT !.surface =
                SurfaceClearToEndOfLine(SurfaceCursorPosition(s, 0, row))]
      [] a.op = "EraseInDisplay" /\ a.sel = 0 ->
            [t EXCEPT !.surface =
                ClearRows(SurfaceClearToEndOfLine(SurfaceCursorPosition(s, col, row)),
                          row + 1, t.config.rows)]
      [] a.op = "EraseInDisplay" /\ a.sel = 1 ->
            [t EXCEPT !.surface =
                SurfaceTextN(SurfaceCursorPosition(ClearRows(s, 0, row), 0, row),
                             " ", col + 1)]
      [] a.op = "EraseInDisplay" /\ a.sel = 2 ->
            [t EXCEPT !.surface = SurfaceClearScreen(s)]
      [] a.op = "EraseInDisplay" /\ a.sel = 3 ->
            erase_scrollback(t)
      [] a.op = "DeleteCharacter" ->
            [t EXCEPT !.surface =
                SurfaceTextN(SurfaceCursorPosition(s, col, row), " ", a.n)]
      [] a.op = "DeleteLine" ->
            IF row > t.config.rows THEN Panic(t)
            ELSE [t EXCEPT !.surface =
                    ScrollRegionUpN(s, row, t.config.rows - row, a.n)]
      [] a.op = "InsertLine" ->
            IF row > t.config.rows THEN Panic(t)
            ELSE [t EXCEPT !.surface =
                    ScrollRegionDownN(s, row, t.config.rows - row, a.n)]
      [] OTHER -> t

\* EmbeddedTerminal::handle_sgr
handle_sgr(t, a) ==
    CASE a.op = "Reset" -> [t EXCEPT !.current_attrs = DefaultAttrs]
      [] a.op = "Bold" -> [t EXCEPT !.current_attrs.intensity = "Bold"]
      [] a.op = "NormalIntensity" -> [t EXCEPT !.current_attrs.intensity = "Normal"]
      [] OTHER -> t

\* Mutant of set_dec_mode: leaving alternate mode keeps the alternate grid.
set_dec_mode_no_restore(t, code, enable) ==
    CASE code = 1 -> [t EXCEPT !.application_cursor_keys = enable]
      [] code \in {1000, 1001, 1002, 1003} -> [t EXCEPT !.mouse_reporting = enable]
      [] code \in {1049, 47} ->
            IF enable
            THEN IF ~t.in_alternate_screen
                 THEN [t EXCEPT !.saved_primary = Some(t.surface),
                                !.surface = SurfaceNew(t.config.cols, t.config.rows),
                                !.in_alternate_screen = TRUE]
                 ELSE t
            ELSE IF t.in_alternate_screen
                 THEN [t EXCEPT !.saved_primary = None,
                                !.in_alternate_screen = FALSE]
                 ELSE t
      [] OTHER -> t

\* set_dec_mode that starts a new alternate grid on every enable.
set_dec_mode_reenter(t, code, enable) ==
    CASE code = 1 -> [t EXCEPT !.application_cursor_keys = enable]
      [] code \in {1000, 1001, 1002, 1003} -> [t EXCEPT !.mouse_reporting = enable]
      [] code \in {1049, 47} ->
            IF enable
            THEN [t EXCEPT !.saved_primary = IF t.in_alternate_screen
                                             THEN t.saved_primary
                                             ELSE Some(t.surface),
                           !.surface = SurfaceNew(t.config.cols, t.config.rows),
                           !.in_alternate_screen = TRUE]
            ELSE IF t.in_alternate_screen
                 THEN [t EXCEPT !.surface = IF t.saved_primary # None
                                            THEN t.saved_primary[1] ELSE t.surface,
                                !.saved_primary = None,
                                !.in_alternate_screen = FALSE]
                 ELSE t
      [] OTHER -> t

\* EmbeddedTerminal::set_dec_mode
set_dec_mode(t, code, enable) ==
    CASE code = 1 -> [t EXCEPT !.application_cursor_keys = enable]
      [] code \in {1000, 1001, 1002, 1003} -> [t EXCEPT !.mouse_reporting = enable]
      [] code \in {1049, 47} ->
            IF enable
            THEN IF ~t.in_alternate_screen
                 THEN [t EXCEPT !.saved_primary = Some(t.surface),
                                !.surface = SurfaceNew(t.config.cols, t.config.rows),
                                !.in_alternate_screen = TRUE]
                 ELSE t
            ELSE IF t.in_alternate_screen
                 THEN [t EXCEPT !.surface = IF t.saved_primary # None
                                            THEN t.saved_primary[1] ELSE t.surface,
                                !.saved_primary = None,
                                !.in_alternate_screen = FALSE]
                 ELSE t
      [] OTHER -> t

\* EmbeddedTerminal::handle_esc
handle_esc(t, a) ==
    CASE a.op = "DecSaveCursorPosition" -> [t EXCEPT !.saved_cursor = Some(t.cursor)]
      [] a.op = "DecRestoreCursorPosition" ->
            IF t.saved_cursor # None
            THEN [t EXCEPT !.cursor = t.saved_cursor[1]] ELSE t
      [] a.op = "ReverseIndex" ->
            IF t.cursor.row = 0
            THEN [t EXCEPT !.surface =
                    SurfaceScrollRegionDown(t.surface, 0, t.config.rows)]
            ELSE [t EXCEPT !.cursor.row = t.cursor.row - 1]
      [] a.op = "Index" -> newline(t)
      [] a.op = "NextLine" -> newline([t EXCEPT !.cursor.col = 0])
      [] OTHER -> t

\* EmbeddedTerminal::handle_action
handle_action(t, a) ==
    IF Panicked(t) THEN t
    ELSE CASE a.kind = "Esc" /\ a.op = "FullReset" -> clear(t)
           [] a.kind = "Print" -> print_char(t, a.c)
           [] a.kind = "Control" -> handle_control(t, a.code)
           [] a.kind = "Cursor" -> handle_cursor(t, a)
           [] a.kind = "Edit" -> handle_edit(t, a)
           [] a.kind = "Sgr" -> handle_sgr(t, a)
           [] a.kind = "Mode" -> set_dec_mode(t, a.code, a.enable)
           [] a.kind = "Esc" /\ a.op # "FullReset" -> handle_esc(t, a)
           [] OTHER -> t

RECURSIVE HandleActions(_, _)
\* for action in actions { self.handle_action(action) }
HandleActions(t, actions) ==
    IF actions = <<>> THEN t
    ELSE HandleActions(handle_action(t, Head(actions)), Tail(actions))

RECURSIVE ParseAndHandle(_, _)
\* parse_as_vec(data) followed by the loop over its actions
ParseAndHandle(t, data) ==
    IF data = <<>> THEN t
    ELSE LET r == ParserAdvance(t.parser, Head(data))
         IN ParseAndHandle(
                HandleActions([t EXCEPT !.parser = r.parser], r.actions),
                Tail(data))

\* Mutant of write: every call starts with a fresh parser, dropping an
\* incomplete sequence left by the previous call.
write_fresh_parser(t, data) ==
    IF Panicked(t) THEN t
    ELSE on_content_added(ParseAndHandle([t EXCEPT !.parser = ParserNew], data))

\* EmbeddedTerminal::write
write(t, data) ==
    IF Panicked(t) THEN t
    ELSE on_content_added(ParseAndHandle(t, data))

\* ------------------------------------------------------------- state
VARIABLES
    term,       \* the EmbeddedTerminal
    steps,      \* operations applied so far
    alt_trip,   \* history: the last visit of alternate-screen mode
    evicted,    \* history: a row was archived into a full scrollback
    written,    \* line runs: the lines written so far
    stream,     \* chunking runs: the byte stream to deliver
    pos,        \* chunking runs: bytes of the stream delivered so far
    last_call,  \* single-call runs: history, the last call on the terminal
    prev_term,  \* single-call runs: history, the terminal before that call
    mode,       \* App::mode
    session,    \* App::pty_session is Some (the PtySession and its receiver exist)
    main_pc,    \* where the owning thread is inside poll_execution
    output,     \* bytes pushed into App::output_buffer
    app_running, \* the main loop has not returned
    last_op,    \* history: the last App operation and its result
    commands,   \* history: commands started by execute_entry
    killed,     \* history: Drop sent a kill to the child of the dropped session
    child_status, \* how the child ended: None while it runs, else Some(ExitStatus)
    exit_status, \* AppMode::PostExecution::exit_status, None in the other modes
    child,      \* the child process: "none", "running" or "exited"
    produced,   \* history: bytes the child wrote to the PTY
    pty_buf,    \* bytes in the PTY not yet read by the reader thread
    reader_pc,  \* where the reader thread is in its loop
    reader_chunk, \* bytes the reader thread read and has not sent yet
    chan,       \* chunks queued in the mpsc channel
    received,   \* history: bytes returned by try_read, in order
    last_read   \* history: buffer length and result of the last try_read

termVars == <<term, steps, alt_trip, evicted, written, stream, pos,
             last_call, prev_term>>
ptyVars == <<mode, session, main_pc, output, app_running, last_op, commands, killed, child_status, exit_status, child, produced, pty_buf,
             reader_pc, reader_chunk, chan, received, last_read>>
vars == <<term, steps, alt_trip, evicted, written, stream, pos,
          last_call, prev_term,
          mode, session, main_pc, output, app_running, last_op, commands, killed, child_status, exit_status,
          child, produced, pty_buf,
          reader_pc, reader_chunk, chan, received, last_read>>

\* The PTY side at rest (terminal-only runs).
PtyUnused ==
    /\ mode = "Launcher"
    /\ session = FALSE
    /\ main_pc = "idle"
    /\ output = <<>>
    /\ app_running = TRUE
    /\ last_op = "new"
    /\ commands = 0
    /\ killed = FALSE
    /\ child_status = None
    /\ exit_status = None
    /\ child = "none"
    /\ produced = <<>>
    /\ pty_buf = <<>>
    /\ reader_pc = "none"
    /\ reader_chunk = <<>>
    /\ chan = <<>>
    /\ received = <<>>
    /\ last_read = [buf |-> 0, ret |-> None, reader |-> "none", child |-> "none"]

\* The terminal side at rest (PTY-only runs).
TermUnused ==
    /\ term = TerminalNew(1, 1, 0)
    /\ steps = 0
    /\ alt_trip = None
    /\ evicted = FALSE
    /\ written = <<>>
    /\ stream = <<>>
    /\ pos = 0
    /\ last_call = [op |-> "new"]
    /\ prev_term = None

Csi(params, final) == <<"ESC", "[">> \o params \o <<final>>

\* The digit byte of a number 0..9.
DigitOf(n) == CHOOSE b \in DigitBytes : DigitValue(b) = n

\* Complete inputs of one write(): a character, a control code, or one
\* control sequence.
TermInputs ==
    { <<"a">>, <<"b">>, <<"BS">>, <<"HT">>, <<"LF">>, <<"CR">> }
    \cup { Csi(<<>>, f) : f \in {"A", "B", "C", "D", "E", "s", "u"} }
    \cup { Csi(<<"2">>, f) : f \in {"B", "C"} }
    \cup { Csi(<<r, ";", c>>, "H") : r \in {"1", "3"}, c \in {"1", "2"} }
    \cup { Csi(<<n>>, "J") : n \in {"0", "1", "2", "3"} }
    \cup { Csi(<<n>>, "K") : n \in {"0", "1", "2"} }
    \cup { Csi(<<>>, f) : f \in {"P", "M", "L"} }
    \cup { Csi(<<"2">>, "P"), Csi(<<>>, "m"), Csi(<<"1">>, "m") }
    \cup { Csi(<<"?", "4", "7">>, f) : f \in {"h", "l"} }
    \cup { Csi(<<"?", "1">>, f) : f \in {"h", "l"} }
    \cup { <<"ESC", f>> : f \in {"7", "8", "D", "E", "M", "c"} }

InitTerm ==
    /\ \E cols \in 1..MaxCols, rows \in 1..MaxRows, cap \in 0..MaxScrollback :
          term = TerminalNew(cols, rows, cap)
    /\ steps = 0
    /\ alt_trip = None
    /\ evicted = FALSE
    /\ written = <<>>
    /\ stream = <<>>
    /\ pos = 0
    /\ last_call = [op |-> "new"]
    /\ prev_term = None
    /\ PtyUnused

\* History of a visit of alternate-screen mode by writes alone: the grid that
\* was live when the mode was entered, whether a write changed the alternate
\* grid, and the grid that was live right after the mode was left.
TrackAlt(before, after, trip) ==
    IF ~before.in_alternate_screen /\ after.in_alternate_screen
    THEN Some([primary |-> before.surface.lines, wrote |-> FALSE, restored |-> None])
    ELSE IF before.in_alternate_screen /\ trip # None /\ trip[1].restored = None
    THEN IF after.in_alternate_screen
         THEN Some([trip[1] EXCEPT
                      !.wrote = @ \/ after.surface.lines # before.surface.lines])
         ELSE Some([trip[1] EXCEPT !.restored = Some(after.surface.lines)])
    ELSE trip

\* History: this step archived a row while the scrollback was full.
TrackEvicted(before, after) ==
    /\ before.config.scrollback > 0
    /\ Len(before.scrollback) = before.config.scrollback
    /\ after.scrollback # before.scrollback
    /\ after.scrollback # <<>>

\* term.write(data) with one complete input
Write ==
    /\ steps < MaxSteps
    /\ ~Panicked(term)
    /\ \E data \in TermInputs :
          /\ term' = write(term, data)
          /\ alt_trip' = TrackAlt(term, term', alt_trip)
          /\ evicted' = (evicted \/ TrackEvicted(term, term'))
    /\ steps' = steps + 1
    /\ UNCHANGED <<written, stream, pos, last_call, prev_term>>
    /\ UNCHANGED ptyVars

\* term.resize(cols, rows)
Resize ==
    /\ steps < MaxSteps
    /\ ~Panicked(term)
    /\ \E cols \in 1..MaxCols, rows \in 1..MaxRows :
          term' = resize(term, cols, rows)
    /\ alt_trip' = IF term.in_alternate_screen THEN None ELSE alt_trip
    /\ steps' = steps + 1
    /\ UNCHANGED <<evicted, written, stream, pos, last_call, prev_term>>
    /\ UNCHANGED ptyVars

NextTerm == Write \/ Resize

SpecTerm == InitTerm /\ [][NextTerm]_vars

\* ---------------------------------------------------------- line runs
\* Texts of a line shorter than `cols` characters.
LineTexts(cols) == UNION { [1..n -> {"a", "b"}] : n \in 0..(cols - 1) }

\* A fresh terminal whose scrollback can hold every line written.
InitLines ==
    /\ \E cols \in 1..MaxCols, rows \in 1..MaxRows :
          term = TerminalNew(cols, rows, MaxLines)
    /\ steps = 0
    /\ alt_trip = None
    /\ evicted = FALSE
    /\ written = <<>>
    /\ stream = <<>>
    /\ pos = 0
    /\ last_call = [op |-> "new"]
    /\ prev_term = None
    /\ PtyUnused

\* term.write(line + "\r\n")
WriteLine ==
    /\ Len(written) < MaxLines
    /\ \E line \in LineTexts(term.config.cols) :
          /\ term' = write(term, line \o <<"CR", "LF">>)
          /\ written' = Append(written, line)
    /\ steps' = steps + 1
    /\ UNCHANGED <<alt_trip, evicted, stream, pos, last_call, prev_term>>
    /\ UNCHANGED ptyVars

NextLines == WriteLine

SpecLines == InitLines /\ [][NextLines]_vars

\* ----------------------------------------------------- single-call runs
\* Short runs that remember the last call and the terminal it was applied to.
MoveInputs ==
    { Csi(<<DigitOf(n)>>, f) : n \in 0..MaxParam, f \in {"A", "B", "C", "D"} }
    \cup { Csi(<<DigitOf(r), ";", DigitOf(c)>>, "H") :
              r \in 0..MaxParam, c \in 0..MaxParam }
    \cup { Csi(<<>>, "H"), Csi(<<DigitOf(MaxParam)>>, "H") }

InitOps ==
    /\ \E cols \in 1..MaxCols, rows \in 1..MaxRows, cap \in 0..MaxScrollback :
          term = TerminalNew(cols, rows, cap)
    /\ steps = 0
    /\ alt_trip = None
    /\ evicted = FALSE
    /\ written = <<>>
    /\ stream = <<>>
    /\ pos = 0
    /\ last_call = [op |-> "new"]
    /\ prev_term = None
    /\ PtyUnused

\* EmbeddedTerminal::write of one complete input.
WriteOp ==
    /\ steps < MaxOpSteps
    /\ ~Panicked(term)
    /\ \E input \in TermInputs \cup MoveInputs :
          /\ term' = write(term, input)
          /\ last_call' = [op |-> "write", data |-> input]
    /\ prev_term' = Some(term)
    /\ steps' = steps + 1
    /\ UNCHANGED <<alt_trip, evicted, written, stream, pos>>
    /\ UNCHANGED ptyVars

\* EmbeddedTerminal::resize
ResizeOp ==
    /\ steps < MaxOpSteps
    /\ ~Panicked(term)
    /\ \E cols \in 1..MaxCols, rows \in 1..MaxRows :
          /\ term' = resize(term, cols, rows)
          /\ last_call' = [op |-> "resize", cols |-> cols, rows |-> rows]
    /\ prev_term' = Some(term)
    /\ steps' = steps + 1
    /\ UNCHANGED <<alt_trip, evicted, written, stream, pos>>
    /\ UNCHANGED ptyVars

NextOps == WriteOp \/ ResizeOp

SpecOps == InitOps /\ [][NextOps]_vars

\* ------------------------------------------------------------ view runs
\* Child output interleaved with the user's scrolling of the view.
ViewInputs ==
    { <<"a">>, <<"LF">>, Csi(<<"3">>, "J"), <<"ESC", "c">> }

InitView ==
    /\ \E cols \in 1..MaxCols, rows \in 1..MaxRows, cap \in 0..MaxScrollback :
          term = TerminalNew(cols, rows, cap)
    /\ steps = 0
    /\ alt_trip = None
    /\ evicted = FALSE
    /\ written = <<>>
    /\ stream = <<>>
    /\ pos = 0
    /\ last_call = [op |-> "new"]
    /\ prev_term = None
    /\ PtyUnused

\* EmbeddedTerminal::write of one piece of child output.
WriteView ==
    /\ steps < MaxViewSteps
    /\ ~Panicked(term)
    /\ \E input \in ViewInputs : term' = write(term, input)
    /\ steps' = steps + 1
    /\ UNCHANGED <<alt_trip, evicted, written, stream, pos, last_call, prev_term>>
    /\ UNCHANGED ptyVars

\* scroll_up(n), from the Up, k and Ctrl+U keys.
ScrollUp ==
    /\ steps < MaxViewSteps
    /\ ~Panicked(term)
    /\ \E n \in 0..MaxScroll : term' = scroll_up(term, n)
    /\ steps' = steps + 1
    /\ UNCHANGED <<alt_trip, evicted, written, stream, pos, last_call, prev_term>>
    /\ UNCHANGED ptyVars

\* scroll_down(n), from the Down, j and Ctrl+D keys.
ScrollDown ==
    /\ steps < MaxViewSteps
    /\ ~Panicked(term)
    /\ \E n \in 0..MaxScroll : term' = scroll_down(term, n)
    /\ steps' = steps + 1
    /\ UNCHANGED <<alt_trip, evicted, written, stream, pos, last_call, prev_term>>
    /\ UNCHANGED ptyVars

\* set_scroll_offset(offset); the g key passes the scrollback length.
SetScrollOffset ==
    /\ steps < MaxViewSteps
    /\ ~Panicked(term)
    /\ \E offset \in 0..(MaxScrollback + 1) :
          term' = set_scroll_offset(term, offset)
    /\ steps' = steps + 1
    /\ UNCHANGED <<alt_trip, evicted, written, stream, pos, last_call, prev_term>>
    /\ UNCHANGED ptyVars

\* scroll_to_bottom(), from the G key.
ScrollToBottom ==
    /\ steps < MaxViewSteps
    /\ ~Panicked(term)
    /\ term' = scroll_to_bottom(term)
    /\ steps' = steps + 1
    /\ UNCHANGED <<alt_trip, evicted, written, stream, pos, last_call, prev_term>>
    /\ UNCHANGED ptyVars

NextView ==
    \/ WriteView
    \/ ScrollUp
    \/ ScrollDown
    \/ SetScrollOffset
    \/ ScrollToBottom

SpecView == InitView /\ [][NextView]_vars

\* --------------------------------------------------------- chunked runs
\* Bytes of the streams that are delivered in chunks.
ChunkBytes == {"ESC", "[", "2", ";", "H", "a", "LF"}

InitChunk ==
    /\ term = TerminalNew(MaxCols, MaxRows, MaxScrollback)
    /\ steps = 0
    /\ alt_trip = None
    /\ evicted = FALSE
    /\ written = <<>>
    /\ stream \in UNION { [1..n -> ChunkBytes] : n \in 1..MaxStream }
    /\ pos = 0
    /\ last_call = [op |-> "new"]
    /\ prev_term = None
    /\ PtyUnused

\* term.write(chunk) with the next n bytes of the stream
WriteChunk ==
    /\ pos < Len(stream)
    /\ \E n \in 1..(Len(stream) - pos) :
          /\ term' = write(term, SubSeq(stream, pos + 1, pos + n))
          /\ pos' = pos + n
    /\ steps' = steps + 1
    /\ UNCHANGED <<alt_trip, evicted, written, stream, last_call, prev_term>>
    /\ UNCHANGED ptyVars

NextChunk == WriteChunk

SpecChunk == InitChunk /\ [][NextChunk]_vars

\* ------------------------------------------------------------ PtySession
\* Bytes the child writes are numbered 1, 2, 3, ... in the order written, so
\* that loss, duplication and reordering are visible downstream.

IsPrefix(s, t) == Len(s) <= Len(t) /\ SubSeq(t, 1, Len(s)) = s

\* the poll loop's buffer has the length of the reader thread's buffer
PollBufLen == ReaderBufLen

\* mpsc::Receiver::recv: waits while the channel is empty and a sender lives
\* (no outcome).
recv(ch, connected) ==
    IF ch # <<>> THEN {[res |-> "Ok", data |-> Head(ch)]}
    ELSE IF connected THEN {}
    ELSE {[res |-> "Disconnected", data |-> <<>>]}

\* mpsc::Receiver::try_recv: the outcomes the call can return with.  It
\* returns at once in every case; queued chunks are still delivered after the
\* sender is gone.
try_recv(ch, connected) ==
    IF ch # <<>> THEN {[res |-> "Ok", data |-> Head(ch)]}
    ELSE IF connected THEN {[res |-> "Empty", data |-> <<>>]}
    ELSE {[res |-> "Disconnected", data |-> <<>>]}

\* PtySession::try_read with a caller buffer of buflen bytes: the channel
\* afterwards, the returned Option<usize> and the bytes copied into the buffer.
try_read(ch, connected, buflen) ==
    { IF r.res = "Ok"
      THEN LET len == Min(Len(r.data), buflen) IN
           [chan |-> Tail(ch), ret |-> Some(len), bytes |-> SubSeq(r.data, 1, len)]
      ELSE [chan |-> ch, ret |-> None, bytes |-> <<>>]
      : r \in try_recv(ch, connected) }

\* The state right after PtySession::spawn returned Ok.
Spawned ==
    /\ session' = TRUE
    /\ killed' = FALSE
    /\ child_status' = None
    /\ child' = "running"
    /\ produced' = <<>>
    /\ pty_buf' = <<>>
    /\ reader_pc' = "read"
    /\ reader_chunk' = <<>>
    /\ chan' = <<>>
    /\ received' = <<>>
    /\ last_read' = [buf |-> 0, ret |-> None, reader |-> "read", child |-> "running"]

\* The child writes one byte to its terminal.
ChildWrite ==
    /\ child = "running"
    /\ Len(produced) < MaxOutput
    /\ produced' = Append(produced, Len(produced) + 1)
    /\ pty_buf' = Append(pty_buf, Len(produced) + 1)
    /\ UNCHANGED <<mode, session, main_pc, output, app_running, last_op,
                   commands, killed, child_status, exit_status, child,
                   reader_pc, reader_chunk, chan, received, last_read>>
    /\ UNCHANGED termVars

\* portable_pty::ExitStatus of a child that ended: an exit code or the signal
\* that terminated it.
ExitStatuses ==
    [kind : {"code"}, n : 0..MaxExitCode] \cup
    [kind : {"signal"}, n : {"SIGKILL", "SIGSEGV"}]

\* The child ends, by exiting or by a signal from outside.
ChildExit ==
    /\ child = "running"
    /\ child' = "exited"
    /\ \E st \in ExitStatuses : child_status' = Some(st)
    /\ UNCHANGED <<mode, session, main_pc, output, app_running, last_op,
                   commands, killed, exit_status, produced, pty_buf,
                   reader_pc, reader_chunk, chan, received, last_read>>
    /\ UNCHANGED termVars

\* Reader thread: reader.read(&mut buf) returns Ok(n), n > 0.  The call waits
\* while the PTY holds no byte and the child lives.
ReaderRead ==
    /\ reader_pc = "read"
    /\ pty_buf # <<>>
    /\ \E n \in 1..Min(Len(pty_buf), ReaderBufLen) :
          /\ reader_chunk' = SubSeq(pty_buf, 1, n)
          /\ pty_buf' = SubSeq(pty_buf, n + 1, Len(pty_buf))
    /\ reader_pc' = "send"
    /\ UNCHANGED <<mode, session, main_pc, output, app_running, last_op,
                   commands, killed, child_status, exit_status, child, produced,
                   chan, received, last_read>>
    /\ UNCHANGED termVars

\* Reader thread: reader.read returns Ok(0) or Err once the child is gone and
\* the PTY is drained; the thread ends and drops the sender.
ReaderEof ==
    /\ reader_pc = "read"
    /\ pty_buf = <<>>
    /\ child = "exited"
    /\ reader_pc' = "done"
    /\ UNCHANGED <<mode, session, main_pc, output, app_running, last_op,
                   commands, killed, child_status, exit_status, child, produced,
                   pty_buf, reader_chunk, chan, received, last_read>>
    /\ UNCHANGED termVars

\* ReaderSend that goes on reading after a failed send.
ReaderSendIgnoresError ==
    /\ reader_pc = "send"
    /\ IF session
       THEN /\ chan' = Append(chan, reader_chunk)
            /\ reader_pc' = "read"
       ELSE /\ chan' = chan
            /\ reader_pc' = "read"
    /\ reader_chunk' = <<>>
    /\ UNCHANGED <<mode, session, main_pc, output, app_running, last_op,
                   commands, killed, child_status, exit_status, child, produced,
                   pty_buf, received, last_read>>
    /\ UNCHANGED termVars

\* Reader thread: tx.send(buf[..n].to_vec()); the thread ends if the receiver
\* was dropped.
ReaderSend ==
    /\ reader_pc = "send"
    /\ IF session
       THEN /\ chan' = Append(chan, reader_chunk)
            /\ reader_pc' = "read"
       ELSE /\ chan' = chan
            /\ reader_pc' = "done"
    /\ reader_chunk' = <<>>
    /\ UNCHANGED <<mode, session, main_pc, output, app_running, last_op,
                   commands, killed, child_status, exit_status, child, produced,
                   pty_buf, received, last_read>>
    /\ UNCHANGED termVars

\* The owner of a session calls try_read with a buffer of buflen bytes.
TryRead(buflen) ==
    /\ session
    /\ \E r \in try_read(chan, reader_pc # "done", buflen) :
          /\ chan' = r.chan
          /\ received' = received \o r.bytes
          /\ last_read' = [buf |-> buflen, ret |-> r.ret,
                           reader |-> reader_pc, child |-> child]
    /\ UNCHANGED <<mode, session, main_pc, output, app_running, last_op,
                   commands, killed, child_status, exit_status, child, produced,
                   pty_buf, reader_pc, reader_chunk>>
    /\ UNCHANGED termVars

TryReadAny == \E buflen \in 0..MaxCallerBuf : TryRead(buflen)

InitSession ==
    /\ TermUnused
    /\ mode = "Launcher"
    /\ main_pc = "idle"
    /\ output = <<>>
    /\ app_running = TRUE
    /\ last_op = "new"
    /\ commands = 0
    /\ killed = FALSE
    /\ child_status = None
    /\ exit_status = None
    /\ session = TRUE
    /\ child = "running"
    /\ produced = <<>>
    /\ pty_buf = <<>>
    /\ reader_pc = "read"
    /\ reader_chunk = <<>>
    /\ chan = <<>>
    /\ received = <<>>
    /\ last_read = [buf |-> 0, ret |-> None, reader |-> "read", child |-> "running"]

NextSession ==
    \/ ChildWrite
    \/ ChildExit
    \/ ReaderRead
    \/ ReaderEof
    \/ ReaderSend
    \/ TryReadAny

SpecSession == InitSession /\ [][NextSession]_vars

\* ------------------------------------------------------------------- App
\* Dropping the PtySession: Drop kills the child if it still runs; the
\* receiver and the chunks queued in it are gone.
DropSessionNoKill ==
    /\ session' = FALSE
    /\ killed' = FALSE
    /\ child' = child
    /\ child_status' = child_status
    /\ chan' = <<>>

DropSession ==
    /\ session' = FALSE
    /\ killed' = (child = "running")
    /\ child' = IF child = "running" THEN "exited" ELSE child
    /\ child_status' = IF child = "running"
                     THEN Some([kind |-> "signal", n |-> "SIGHUP"])
                     ELSE child_status
    /\ chan' = <<>>

\* The fallible steps of PtySession::spawn, in order; each is left with `?`.
SpawnSteps == <<"openpty", "spawn_command", "try_clone_reader", "take_writer">>

\* The state right after PtySession::spawn returned Err at the given step.
\* Nothing is started before spawn_command succeeds; after it the child runs
\* and the early return releases the handles without touching it.
SpawnFails(step) ==
    IF step \in {"openpty", "spawn_command"}
    THEN UNCHANGED <<session, child, produced, pty_buf, reader_pc,
                     reader_chunk, chan, received, last_read, killed,
                     child_status>>
    ELSE /\ child' = "running"
         /\ produced' = <<>>
         /\ pty_buf' = <<>>
         /\ reader_pc' = "none"
         /\ reader_chunk' = <<>>
         /\ chan' = <<>>
         /\ killed' = FALSE
         /\ child_status' = None
         /\ UNCHANGED <<session, received, last_read>>

\* App::execute_entry, called from the launcher's Enter key.  kind says what
\* the entry is: without a command, a TUI program, or a shell command; fail
\* names the step of PtySession::spawn that fails, "none" if it succeeds.  The
\* caller leaves the main loop with the error (main.rs:242, 179).
ExecuteEntry ==
    /\ app_running
    /\ mode = "Launcher"
    /\ main_pc = "idle"
    /\ \E kind \in {"none", "tui", "shell"},
          fail \in {"none"} \cup {SpawnSteps[i] : i \in 1..Len(SpawnSteps)} :
          CASE kind = "none" ->
                  /\ last_op' = "execute_entry:no_command"
                  /\ UNCHANGED <<mode, session, main_pc, output, app_running,
                                 commands, killed, child_status, exit_status, child, produced, pty_buf,
                                 reader_pc, reader_chunk, chan, received,
                                 last_read>>
            [] kind = "tui" ->
                  /\ mode' = "TuiHandover"
                  /\ last_op' = "execute_entry:tui"
                  /\ UNCHANGED <<session, main_pc, output, app_running,
                                 commands, killed, child_status, exit_status, child, produced, pty_buf,
                                 reader_pc, reader_chunk, chan, received,
                                 last_read>>
            [] kind = "shell" /\ fail = "none" ->
                  /\ commands < MaxCommands
                  /\ output' = <<>>
                  /\ Spawned
                  /\ mode' = "Executing"
                  /\ commands' = commands + 1
                  /\ last_op' = "execute_entry:ok"
                  /\ UNCHANGED <<main_pc, app_running, exit_status>>
            [] kind = "shell" /\ fail # "none" ->
                  /\ commands < MaxCommands
                  /\ output' = <<>>
                  /\ SpawnFails(fail)
                  /\ app_running' = FALSE
                  /\ last_op' = "execute_entry:spawn_err"
                  /\ UNCHANGED <<mode, main_pc, commands, exit_status>>
    /\ UNCHANGED termVars

\* App::execute_tui, run by the main loop when the mode is TuiHandover.
ExecuteTui ==
    /\ app_running
    /\ mode = "TuiHandover"
    /\ main_pc = "idle"
    /\ mode' = "Launcher"
    /\ last_op' = "execute_tui"
    /\ UNCHANGED <<session, main_pc, output, app_running, commands, killed, child_status, exit_status,
                   child, produced, pty_buf, reader_pc, reader_chunk, chan,
                   received, last_read>>
    /\ UNCHANGED termVars

\* portable_pty::ExitStatus::success
success(status) == status.kind = "code" /\ status.n = 0

\* CommandStatus::from_exit_status
from_exit_status(status) ==
    IF success(status)
    THEN [tag |-> "Exited", code |-> 0]
    ELSE [tag |-> "Exited", code |-> 1]

\* App::poll_execution, entry: the main loop calls it while the mode is
\* Executing; without a session it returns at once.
PollStart ==
    /\ app_running
    /\ mode = "Executing"
    /\ main_pc = "idle"
    /\ main_pc' = IF session THEN "drain" ELSE "idle"
    /\ last_op' = "poll_execution"
    /\ UNCHANGED <<mode, session, output, app_running, commands, killed, child_status, exit_status, child,
                   produced, pty_buf, reader_pc, reader_chunk, chan, received,
                   last_read>>
    /\ UNCHANGED termVars

\* App::poll_execution, one turn of the drain loop.
PollTryRead ==
    /\ main_pc = "drain"
    /\ \E r \in try_read(chan, reader_pc # "done", PollBufLen) :
          /\ chan' = r.chan
          /\ received' = received \o r.bytes
          /\ last_read' = [buf |-> PollBufLen, ret |-> r.ret,
                           reader |-> reader_pc, child |-> child]
          /\ IF r.ret # None /\ r.ret[1] > 0
             THEN /\ output' = output \o r.bytes
                  /\ main_pc' = "drain"
             ELSE /\ output' = output
                  /\ main_pc' = "wait"
    /\ UNCHANGED <<mode, session, app_running, last_op, commands, killed, child_status, exit_status, child,
                   produced, pty_buf, reader_pc, reader_chunk>>
    /\ UNCHANGED termVars

\* The exit poll with the session left in place when the child has exited.
PollTryWaitKeepsSession ==
    /\ main_pc = "wait"
    /\ main_pc' = "idle"
    /\ IF child = "exited"
       THEN /\ mode' = "PostExecution"
            /\ exit_status' = Some(from_exit_status(child_status[1]))
            /\ UNCHANGED <<session, child, chan, killed, child_status>>
            /\ last_op' = "poll_execution:exited"
       ELSE /\ last_op' = "poll_execution:running"
            /\ UNCHANGED <<mode, session, child, chan, killed, child_status,
                           exit_status>>
    /\ UNCHANGED <<output, app_running, commands, produced, pty_buf, reader_pc,
                   reader_chunk, received, last_read>>
    /\ UNCHANGED termVars

\* App::poll_execution, the exit poll after the drain loop.
PollTryWait ==
    /\ main_pc = "wait"
    /\ main_pc' = "idle"
    /\ IF child = "exited"
       THEN /\ mode' = "PostExecution"
            /\ exit_status' = Some(from_exit_status(child_status[1]))
            /\ DropSession
            /\ last_op' = "poll_execution:exited"
       ELSE /\ last_op' = "poll_execution:running"
            /\ UNCHANGED <<mode, session, child, chan, killed, child_status,
                           exit_status>>
    /\ UNCHANGED <<output, app_running, commands, produced, pty_buf, reader_pc,
                   reader_chunk, received, last_read>>
    /\ UNCHANGED termVars

\* App::kill_execution with the session left in place.
KillExecutionKeepsSession ==
    /\ app_running
    /\ mode = "Executing"
    /\ main_pc = "idle"
    /\ mode' = "Launcher"
    /\ last_op' = "kill_execution"
    /\ UNCHANGED <<session, child, chan, killed, child_status, exit_status>>
    /\ UNCHANGED <<main_pc, output, app_running, commands, produced, pty_buf,
                   reader_pc, reader_chunk, received, last_read>>
    /\ UNCHANGED termVars

\* App::kill_execution, called on Ctrl+C while executing.
KillExecution ==
    /\ app_running
    /\ mode = "Executing"
    /\ main_pc = "idle"
    /\ DropSession
    /\ mode' = "Launcher"
    /\ last_op' = "kill_execution"
    /\ UNCHANGED <<main_pc, output, app_running, commands, exit_status, produced, pty_buf,
                   reader_pc, reader_chunk, received, last_read>>
    /\ UNCHANGED termVars

\* App::dismiss_output, called on Enter or Esc after the command ended.
DismissOutput ==
    /\ app_running
    /\ mode = "PostExecution"
    /\ main_pc = "idle"
    /\ output' = <<>>
    /\ mode' = "Launcher"
    /\ exit_status' = None
    /\ last_op' = "dismiss_output"
    /\ UNCHANGED <<session, main_pc, app_running, commands, killed, child_status, child,
                   produced, pty_buf, reader_pc, reader_chunk, chan, received,
                   last_read>>
    /\ UNCHANGED termVars

\* App::dismiss_output without its mode test.
dismiss_output_unguarded ==
    /\ app_running
    /\ main_pc = "idle"
    /\ output' = <<>>
    /\ mode' = "Launcher"
    /\ exit_status' = None
    /\ last_op' = "dismiss_output"
    /\ UNCHANGED <<session, main_pc, app_running, commands, killed, child_status, child,
                   produced, pty_buf, reader_pc, reader_chunk, chan, received,
                   last_read>>
    /\ UNCHANGED termVars

\* App::dismiss_output as the method itself, called between two turns of the
\* main loop in whatever mode the app is in: it tests the mode on its own.
dismiss_output ==
    /\ app_running
    /\ main_pc = "idle"
    /\ IF mode = "PostExecution"
       THEN /\ output' = <<>>
            /\ mode' = "Launcher"
            /\ exit_status' = None
       ELSE UNCHANGED <<output, mode, exit_status>>
    /\ last_op' = "dismiss_output"
    /\ UNCHANGED <<session, main_pc, app_running, commands, killed, child_status, child,
                   produced, pty_buf, reader_pc, reader_chunk, chan, received,
                   last_read>>
    /\ UNCHANGED termVars

\* App::send_input, called by handle_executing_keys for a key that encodes to
\* bytes.  PtySession::write can fail once the child has exited (the slave
\* side of the PTY is closed); the error goes up through handle_key_event to
\* run_app, which returns it (main.rs:179).
SendInput ==
    /\ app_running
    /\ mode = "Executing"
    /\ main_pc = "idle"
    /\ \E ok \in BOOLEAN :
          /\ (~ok) => (session /\ child = "exited")
          /\ app_running' = ok
          /\ last_op' = IF ok THEN "send_input:ok" ELSE "send_input:err"
    /\ UNCHANGED <<mode, session, main_pc, output, commands, killed, child_status, exit_status, child,
                   produced, pty_buf, reader_pc, reader_chunk, chan, received,
                   last_read>>
    /\ UNCHANGED termVars

\* A key handler returns Ok(true): Esc or q in the launcher, q or Ctrl+C after
\* a command ended.  run_app returns.
Quit ==
    /\ app_running
    /\ mode \in {"Launcher", "PostExecution"}
    /\ main_pc = "idle"
    /\ app_running' = FALSE
    /\ last_op' = "quit"
    /\ UNCHANGED <<mode, session, main_pc, output, commands, killed, child_status, exit_status, child,
                   produced, pty_buf, reader_pc, reader_chunk, chan, received,
                   last_read>>
    /\ UNCHANGED termVars

\* main returns after run_app: the App is dropped, and with it a session it
\* still holds.
Teardown ==
    /\ ~app_running
    /\ session
    /\ DropSession
    /\ UNCHANGED <<mode, main_pc, output, app_running, last_op, commands, exit_status,
                   produced, pty_buf, reader_pc, reader_chunk, received,
                   last_read>>
    /\ UNCHANGED termVars

InitApp ==
    /\ TermUnused
    /\ PtyUnused

NextApp ==
    \/ ExecuteEntry
    \/ ExecuteTui
    \/ PollStart
    \/ PollTryRead
    \/ PollTryWait
    \/ KillExecution
    \/ DismissOutput
    \/ SendInput
    \/ Quit
    \/ Teardown
    \/ ChildWrite
    \/ ChildExit
    \/ ReaderRead
    \/ ReaderEof
    \/ ReaderSend

SpecApp == InitApp /\ [][NextApp]_vars

\* The app with dismiss_output callable in every mode.
NextModes ==
    \/ ExecuteEntry
    \/ ExecuteTui
    \/ PollStart
    \/ PollTryRead
    \/ PollTryWait
    \/ KillExecution
    \/ dismiss_output
    \/ SendInput
    \/ Quit
    \/ Teardown
    \/ ChildWrite
    \/ ChildExit
    \/ ReaderRead
    \/ ReaderEof
    \/ ReaderSend

SpecModes == InitApp /\ [][NextModes]_vars

\* ----------------------------------------------------------- render runs
\* Child output, scrolling of the view, resizes and the rendering reads.
\* EmbeddedTerminal::get_row(viewport_row) for a row of the viewport, as the
\* widget calls it; a &self method.
GetRow ==
    /\ ~Panicked(term)
    /\ \E v \in 0..(term.config.rows - 1) :
          last_call' = [op |-> "get_row", v |-> v, ret |-> get_row(term, v)]
    /\ prev_term' = Some(term)
    /\ UNCHANGED <<term, steps, alt_trip, evicted, written, stream, pos>>
    /\ UNCHANGED ptyVars

\* EmbeddedTerminal::get_visible_rows(), a &self method.
GetVisibleRows ==
    /\ ~Panicked(term)
    /\ last_call' = [op |-> "get_visible_rows", ret |-> get_visible_rows(term)]
    /\ prev_term' = Some(term)
    /\ UNCHANGED <<term, steps, alt_trip, evicted, written, stream, pos>>
    /\ UNCHANGED ptyVars

\* EmbeddedTerminal::set_follow_mode(follow)
SetFollowMode ==
    /\ steps < MaxViewSteps
    /\ ~Panicked(term)
    /\ \E follow \in BOOLEAN :
          /\ term' = set_follow_mode(term, follow)
          /\ last_call' = [op |-> "set_follow_mode", follow |-> follow]
    /\ prev_term' = Some(term)
    /\ steps' = steps + 1
    /\ UNCHANGED <<alt_trip, evicted, written, stream, pos>>
    /\ UNCHANGED ptyVars

\* EmbeddedTerminal::clear()
Clear ==
    /\ steps < MaxViewSteps
    /\ ~Panicked(term)
    /\ term' = clear(term)
    /\ steps' = steps + 1
    /\ UNCHANGED <<alt_trip, evicted, written, stream, pos, last_call, prev_term>>
    /\ UNCHANGED ptyVars

NextRender ==
    \/ WriteView
    \/ ScrollUp
    \/ ScrollDown
    \/ SetScrollOffset
    \/ ScrollToBottom
    \/ SetFollowMode
    \/ Clear
    \/ Resize
    \/ GetRow
    \/ GetVisibleRows

SpecRender == InitView /\ [][NextRender]_vars

\* ------------------------------------------------------------- drop runs
\* One session whose owner may drop it at any moment.
\* impl Drop for PtySession, then the drop of its fields: the child is killed
\* if it still runs and the receiver goes away with whatever is queued.  The
\* reader thread is detached, not joined.
Drop ==
    /\ session
    /\ DropSession
    /\ UNCHANGED <<mode, main_pc, output, app_running, last_op, commands,
                   exit_status, produced, pty_buf, reader_pc, reader_chunk,
                   received, last_read>>
    /\ UNCHANGED termVars

NextDrop ==
    \/ ChildWrite
    \/ ChildExit
    \/ ReaderRead
    \/ ReaderEof
    \/ ReaderSend
    \/ TryReadAny
    \/ Drop

\* The reader is a thread of its own: the scheduler runs it, so a step of its
\* loop that stays possible is eventually taken.
ReaderFairness ==
    /\ WF_vars(ReaderRead)
    /\ WF_vars(ReaderEof)
    /\ WF_vars(ReaderSend)

SpecDrop == InitSession /\ [][NextDrop]_vars /\ ReaderFairness

\* -------------------------------------------------------------- key runs
\* A command is executing: its output is written to the terminal while the
\* user presses keys.  Key codes are records, modifier sets are sets of
\* strings, and an encoding is a sequence of bytes.
MaxKeySteps == 3

\* input.rs convert_modifiers: crossterm modifiers to termwiz modifiers.
convert_modifiers(ct_mods) ==
    (IF "SHIFT" \in ct_mods THEN {"SHIFT"} ELSE {})
    \cup (IF "CONTROL" \in ct_mods THEN {"CTRL"} ELSE {})
    \cup (IF "ALT" \in ct_mods THEN {"ALT"} ELSE {})

\* input.rs convert_keycode: crossterm key code to termwiz key code.  A code
\* without an arm of its own becomes KeyCode::Char(' ').
convert_keycode(ct_code) ==
    CASE ct_code.kind = "Char" -> [kind |-> "Char", c |-> ct_code.c]
      [] ct_code.kind = "Enter" -> [kind |-> "Enter"]
      [] ct_code.kind = "Up" -> [kind |-> "UpArrow"]
      [] ct_code.kind = "Down" -> [kind |-> "DownArrow"]
      [] ct_code.kind = "Left" -> [kind |-> "LeftArrow"]
      [] ct_code.kind = "Right" -> [kind |-> "RightArrow"]
      [] ct_code.kind = "CapsLock" -> [kind |-> "CapsLock"]
      [] OTHER -> [kind |-> "Char", c |-> " "]

\* The final byte of an arrow key.
ArrowFinal(key) ==
    CASE key.kind = "UpArrow" -> "A"
      [] key.kind = "DownArrow" -> "B"
      [] key.kind = "RightArrow" -> "C"
      [] key.kind = "LeftArrow" -> "D"

\* termwiz encode_modifiers: shift 1, alt 2, ctrl 4.
encode_modifiers(mods) ==
    (IF "SHIFT" \in mods THEN 1 ELSE 0)
    + (IF "ALT" \in mods THEN 2 ELSE 0)
    + (IF "CTRL" \in mods THEN 4 ELSE 0)

\* termwiz KeyCode::encode with the xterm encoding, for a key press: a
\* character is sent as it is, as its control byte with CTRL, after ESC with
\* ALT; Enter is CR; an arrow without modifiers is SS3 or CSI by the
\* application-cursor-keys mode and with modifiers CSI 1 ; m final; a lock key
\* has no encoding.
encode(key, mods, modes) ==
    CASE key.kind = "Char" ->
            (IF "ALT" \in mods THEN <<"ESC">> ELSE <<>>)
            \o (IF "CTRL" \in mods THEN << [ctrl |-> key.c] >> ELSE << key.c >>)
      [] key.kind = "Enter" ->
            (IF "ALT" \in mods THEN <<"ESC">> ELSE <<>>) \o <<"CR">>
      [] key.kind \in {"UpArrow", "DownArrow", "LeftArrow", "RightArrow"} ->
            IF mods # {}
            THEN <<"ESC", "[", "1", ";", DigitOf(1 + encode_modifiers(mods)),
                   ArrowFinal(key)>>
            ELSE IF modes.application_cursor_keys
                 THEN <<"ESC", "O", ArrowFinal(key)>>
                 ELSE <<"ESC", "[", ArrowFinal(key)>>
      [] OTHER -> <<>>

\* encode_key that ignores the application-cursor-keys mode.
encode_key_normal_mode(t, key, mods) ==
    encode(key, mods, [application_cursor_keys |-> FALSE,
                       newline_mode |-> FALSE])

\* EmbeddedTerminal::encode_key; newline_mode is never set after new().
encode_key(t, key, mods) ==
    encode(key, mods, [application_cursor_keys |-> t.application_cursor_keys,
                       newline_mode |-> FALSE])

\* Child output of the key runs.
KeyRunInputs ==
    { <<"a">>, <<"LF">>, <<"ESC", "c">>, Csi(<<"?", "4", "7">>, "h") }
    \cup { Csi(<<"?", "1">>, f) : f \in {"h", "l"} }

\* Key codes and modifier sets of the key events drawn.
CtKeyCodes ==
    { [kind |-> k] : k \in {"Up", "Down", "Left", "Right", "Enter", "CapsLock",
                            "Media", "KeypadBegin"} }
    \cup { [kind |-> "Char", c |-> c] :
              c \in {"a", "c", "k", "j", "u", "d", "g", "G"} }
CtModifiers == { {}, {"SHIFT"}, {"CONTROL"} }

InitKeys ==
    /\ term = TerminalNew(MaxCols, 1, MaxScrollback)
    /\ steps = 0
    /\ alt_trip = None
    /\ evicted = FALSE
    /\ written = <<>>
    /\ stream = <<>>
    /\ pos = 0
    /\ last_call = [op |-> "new"]
    /\ prev_term = None
    /\ mode = "Executing"
    /\ session = TRUE
    /\ main_pc = "idle"
    /\ output = <<>>
    /\ app_running = TRUE
    /\ last_op = "execute_entry"
    /\ commands = 1
    /\ killed = FALSE
    /\ child_status = None
    /\ exit_status = None
    /\ child = "running"
    /\ produced = <<>>
    /\ pty_buf = <<>>
    /\ reader_pc = "read"
    /\ reader_chunk = <<>>
    /\ chan = <<>>
    /\ received = <<>>
    /\ last_read = [buf |-> 0, ret |-> None, reader |-> "read", child |-> "running"]

\* EmbeddedTerminal::write of one piece of the command's output; `written`
\* keeps the pieces in order.
WriteKeys ==
    /\ steps < MaxKeySteps
    /\ app_running
    /\ mode = "Executing"
    /\ ~Panicked(term)
    /\ \E input \in KeyRunInputs :
          /\ term' = write(term, input)
          /\ written' = Append(written, input)
          /\ last_call' = [op |-> "write", data |-> input]
    /\ prev_term' = Some(term)
    /\ steps' = steps + 1
    /\ UNCHANGED <<alt_trip, evicted, stream, pos>>
    /\ UNCHANGED ptyVars

\* EmbeddedTerminal::encode_key(key, modifiers), a &self method.
EncodeKey ==
    /\ steps < MaxKeySteps
    /\ app_running
    /\ mode = "Executing"
    /\ \E code \in CtKeyCodes, ct_mods \in CtModifiers :
          last_call' = [op |-> "encode_key",
                        key |-> convert_keycode(code),
                        mods |-> convert_modifiers(ct_mods),
                        ret |-> encode_key(term, convert_keycode(code),
                                           convert_modifiers(ct_mods))]
    /\ prev_term' = Some(term)
    /\ steps' = steps + 1
    /\ UNCHANGED <<term, alt_trip, evicted, written, stream, pos>>
    /\ UNCHANGED ptyVars

\* main.rs handle_executing_keys for one key event, reached from
\* handle_key_event while the mode is Executing.  The arms are tried in
\* order; the last one forwards the encoded key with App::send_input, which
\* writes to the session if there is one.
HandleExecutingKeys ==
    /\ steps < MaxKeySteps
    /\ app_running
    /\ mode = "Executing"
    /\ main_pc = "idle"
    /\ ~Panicked(term)
    /\ \E code \in CtKeyCodes, ct_mods \in CtModifiers :
          LET isChar(c) == code.kind = "Char" /\ code.c = c
              ctrl == "CONTROL" \in ct_mods
              encoded == encode_key(term, convert_keycode(code),
                                    convert_modifiers(ct_mods))
              scrolled(t) ==
                  /\ term' = t
                  /\ last_call' = [op |-> "handle_executing_keys",
                                   code |-> code, mods |-> ct_mods,
                                   encoded |-> <<>>, sent |-> <<>>]
                  /\ UNCHANGED ptyVars
          IN IF isChar("c") /\ ctrl
             THEN /\ DropSession
                  /\ mode' = "Launcher"
                  /\ last_op' = "kill_execution"
                  /\ term' = term
                  /\ last_call' = [op |-> "handle_executing_keys",
                                   code |-> code, mods |-> ct_mods,
                                   encoded |-> <<>>, sent |-> <<>>]
                  /\ UNCHANGED <<main_pc, output, app_running, commands,
                                 exit_status, produced, pty_buf, reader_pc,
                                 reader_chunk, received, last_read>>
             ELSE IF (code.kind = "Up" \/ isChar("k")) /\ term.scroll_offset # 0
             THEN scrolled(scroll_up(term, 1))
             ELSE IF (code.kind = "Down" \/ isChar("j")) /\ term.scroll_offset # 0
             THEN scrolled(scroll_down(term, 1))
             ELSE IF isChar("u") /\ ctrl
             THEN scrolled(scroll_up(term, 10))
             ELSE IF isChar("d") /\ ctrl
             THEN scrolled(scroll_down(term, 10))
             ELSE IF isChar("g")
             THEN scrolled(set_scroll_offset(term, Len(term.scrollback)))
             ELSE IF isChar("G")
             THEN scrolled(scroll_to_bottom(term))
             ELSE /\ term' = term
                  /\ \E ok \in BOOLEAN :
                        /\ (~ok) => (encoded # <<>> /\ session /\ child = "exited")
                        /\ app_running' = ok
                        /\ last_op' = IF encoded = <<>> THEN last_op
                                      ELSE IF ok THEN "send_input:ok"
                                      ELSE "send_input:err"
                        /\ last_call' = [op |-> "handle_executing_keys",
                                         code |-> code, mods |-> ct_mods,
                                         encoded |-> encoded,
                                         sent |-> IF session /\ ok THEN encoded
                                                  ELSE <<>>]
                  /\ UNCHANGED <<mode, session, main_pc, output, commands,
                                 killed, child_status, exit_status, child,
                                 produced, pty_buf, reader_pc, reader_chunk,
                                 chan, received, last_read>>
    /\ prev_term' = Some(term)
    /\ steps' = steps + 1
    /\ UNCHANGED <<alt_trip, evicted, written, stream, pos>>

NextKeys == WriteKeys \/ EncodeKey \/ HandleExecutingKeys

SpecKeys == InitKeys /\ [][NextKeys]_vars

\* ----------------------------------------------------------- buffer runs
\* executor.rs OutputBuffer on its own.  In these runs `output` holds the
\* buffer itself: lines and partial_line are sequences of characters, and a
\* byte or character is a string.  C3 A9 is the two-byte UTF-8 encoding of the
\* character e-acute; FFFD is the replacement character.
MaxBufLines == 2
MaxBufSteps == 4

\* OutputBuffer::new(max_lines)
OutputBufferNew(max_lines) ==
    [lines |-> <<>>, max_lines |-> max_lines, scroll_offset |-> 0,
     partial_line |-> <<>>]

RECURSIVE from_utf8_lossy(_)
\* String::from_utf8_lossy(data): a complete sequence is its character, a
\* lead byte without its continuation and a continuation byte without its
\* lead byte are each replaced by U+FFFD.
from_utf8_lossy(data) ==
    IF data = <<>> THEN <<>>
    ELSE IF data[1] = "C3"
         THEN IF Len(data) >= 2 /\ data[2] = "A9"
              THEN <<"e-acute">> \o from_utf8_lossy(SubSeq(data, 3, Len(data)))
              ELSE <<"FFFD">> \o from_utf8_lossy(SubSeq(data, 2, Len(data)))
    ELSE IF data[1] = "A9"
         THEN <<"FFFD">> \o from_utf8_lossy(SubSeq(data, 2, Len(data)))
    ELSE <<data[1]>> \o from_utf8_lossy(SubSeq(data, 2, Len(data)))

\* char::is_ascii_alphabetic on the characters of the model.
is_ascii_alphabetic(c) == c \in {"a", "b", "m"}

RECURSIVE SkipCsi(_)
\* strip_ansi_escapes, inside ESC [: skip up to and including the first
\* letter; the rest of the string after it.
SkipCsi(s) ==
    IF s = <<>> THEN <<>>
    ELSE IF is_ascii_alphabetic(s[1]) THEN SubSeq(s, 2, Len(s))
    ELSE SkipCsi(SubSeq(s, 2, Len(s)))

RECURSIVE strip_ansi_escapes(_)
\* executor.rs strip_ansi_escapes: ESC is dropped, and with a following [
\* everything up to the first letter.
strip_ansi_escapes(s) ==
    IF s = <<>> THEN <<>>
    ELSE IF s[1] = "ESC"
         THEN IF Len(s) >= 2 /\ s[2] = "["
              THEN strip_ansi_escapes(SkipCsi(SubSeq(s, 3, Len(s))))
              ELSE strip_ansi_escapes(SubSeq(s, 2, Len(s)))
    ELSE <<s[1]>> \o strip_ansi_escapes(SubSeq(s, 2, Len(s)))

RECURSIVE EnforceMaxLines(_)
\* The while loop of push_line: drop the oldest line, and move the scroll
\* offset with it, until at most max_lines lines are held.
EnforceMaxLines(b) ==
    IF Len(b.lines) > b.max_lines
    THEN EnforceMaxLines([b EXCEPT !.lines = Tail(b.lines),
                                   !.scroll_offset = SatSub(b.scroll_offset, 1)])
    ELSE b

\* push_line that refuses the new line when the buffer is full.
output_push_line_drop_newest(b, content) ==
    IF Len(b.lines) >= b.max_lines THEN b
    ELSE [b EXCEPT !.lines = Append(b.lines, strip_ansi_escapes(content))]

\* OutputBuffer::push_line
output_push_line(b, content) ==
    EnforceMaxLines(
        [b EXCEPT !.lines = Append(b.lines, strip_ansi_escapes(content))])

RECURSIVE PushChars(_, _)
\* The loop of push over the characters of the decoded text.
PushChars(b, text) ==
    IF text = <<>> THEN b
    ELSE LET ch == text[1]
             rest == SubSeq(text, 2, Len(text))
         IN IF ch = "LF"
            THEN PushChars(output_push_line([b EXCEPT !.partial_line = <<>>],
                                            b.partial_line), rest)
            ELSE IF ch = "CR"
            THEN PushChars(b, rest)
            ELSE PushChars([b EXCEPT !.partial_line = Append(b.partial_line, ch)],
                           rest)

\* OutputBuffer::push
output_push(b, data) == PushChars(b, from_utf8_lossy(data))

\* OutputBuffer::flush
output_flush(b) ==
    IF b.partial_line # <<>>
    THEN output_push_line([b EXCEPT !.partial_line = <<>>], b.partial_line)
    ELSE b

\* OutputBuffer::clear
output_clear(b) ==
    [b EXCEPT !.lines = <<>>, !.partial_line = <<>>, !.scroll_offset = 0]

\* OutputBuffer::scroll_up
output_scroll_up(b, n) == [b EXCEPT !.scroll_offset = SatSub(b.scroll_offset, n)]

\* OutputBuffer::scroll_down
output_scroll_down(b, n, viewport_height) ==
    LET max_scroll == SatSub(Len(b.lines), viewport_height)
    IN [b EXCEPT !.scroll_offset = Min(b.scroll_offset + n, max_scroll)]

\* OutputBuffer::scroll_to_top
output_scroll_to_top(b) == [b EXCEPT !.scroll_offset = 0]

\* OutputBuffer::scroll_to_bottom
output_scroll_to_bottom(b, viewport_height) ==
    [b EXCEPT !.scroll_offset = SatSub(Len(b.lines), viewport_height)]

\* Pieces of output handed to push by the drain loop of poll_execution.
BufChunks ==
    { <<"a">>, <<"b", "LF">>, <<"CR", "LF">>, <<"a", "LF", "b">>,
      <<"ESC", "[">>, <<"m", "b">>, <<"ESC", "[", "m", "b">>,
      <<"C3">>, <<"A9">>, <<"C3", "A9">> }

\* History of the buffer runs: `written` is the concatenation of the bytes
\* pushed while nothing but pushes and scrolls happened, `stream` a buffer
\* fed alongside that never evicts (each step completes at most one line): it
\* holds every completed line since the last clear.
InitBuffer ==
    /\ \E max_lines \in 0..MaxBufLines : output = OutputBufferNew(max_lines)
    /\ stream = OutputBufferNew(MaxBufSteps)
    /\ written = [pure |-> TRUE, bytes |-> <<>>]
    /\ steps = 0
    /\ term = TerminalNew(1, 1, 0)
    /\ alt_trip = None
    /\ evicted = FALSE
    /\ pos = 0
    /\ last_call = [op |-> "new"]
    /\ prev_term = None
    /\ mode = "Launcher"
    /\ session = FALSE
    /\ main_pc = "idle"
    /\ app_running = TRUE
    /\ last_op = "new"
    /\ commands = 0
    /\ killed = FALSE
    /\ child_status = None
    /\ exit_status = None
    /\ child = "none"
    /\ produced = <<>>
    /\ pty_buf = <<>>
    /\ reader_pc = "none"
    /\ reader_chunk = <<>>
    /\ chan = <<>>
    /\ received = <<>>
    /\ last_read = [buf |-> 0, ret |-> None, reader |-> "none", child |-> "none"]

BufferFrame ==
    UNCHANGED <<term, alt_trip, evicted, pos, prev_term, mode, session, main_pc,
                app_running, last_op, commands, killed, child_status,
                exit_status, child, produced, pty_buf, reader_pc, reader_chunk,
                chan, received, last_read>>

\* OutputBuffer::push(data)
BufPush ==
    /\ steps < MaxBufSteps
    /\ \E data \in BufChunks :
          /\ output' = output_push(output, data)
          /\ stream' = output_push(stream, data)
          /\ written' = IF written.pure
                        THEN [written EXCEPT !.bytes = written.bytes \o data]
                        ELSE written
          /\ last_call' = [op |-> "push", data |-> data]
    /\ steps' = steps + 1
    /\ BufferFrame

\* OutputBuffer::flush()
BufFlush ==
    /\ steps < MaxBufSteps
    /\ output' = output_flush(output)
    /\ stream' = output_flush(stream)
    /\ written' = [pure |-> FALSE, bytes |-> <<>>]
    /\ last_call' = [op |-> "flush"]
    /\ steps' = steps + 1
    /\ BufferFrame

\* OutputBuffer::clear()
BufClear ==
    /\ steps < MaxBufSteps
    /\ output' = output_clear(output)
    /\ stream' = output_clear(stream)
    /\ written' = [pure |-> FALSE, bytes |-> <<>>]
    /\ last_call' = [op |-> "clear"]
    /\ steps' = steps + 1
    /\ BufferFrame

\* OutputBuffer::scroll_up(n), scroll_down(n, viewport_height),
\* scroll_to_top() and scroll_to_bottom(viewport_height)
BufScroll ==
    /\ steps < MaxBufSteps
    /\ \E n \in 0..MaxScroll, viewport_height \in 0..MaxScroll :
          \/ /\ output' = output_scroll_up(output, n)
             /\ last_call' = [op |-> "scroll_up", n |-> n]
          \/ /\ output' = output_scroll_down(output, n, viewport_height)
             /\ last_call' = [op |-> "scroll_down", n |-> n,
                              viewport_height |-> viewport_height]
          \/ /\ output' = output_scroll_to_top(output)
             /\ last_call' = [op |-> "scroll_to_top"]
          \/ /\ output' = output_scroll_to_bottom(output, viewport_height)
             /\ last_call' = [op |-> "scroll_to_bottom",
                              viewport_height |-> viewport_height]
    /\ steps' = steps + 1
    /\ UNCHANGED <<stream, written>>
    /\ BufferFrame

NextBuffer == BufPush \/ BufFlush \/ BufClear \/ BufScroll

SpecBuffer == InitBuffer /\ [][NextBuffer]_vars

\* ------------------------------------------------------------ claims
\* C1: in every reachable state the cursor is inside the configured grid,
\* 0 <= col < cols and 0 <= row < rows, after any writes and resizes.
CursorInBounds ==
    Panicked(term) \/
        /\ 0 <= term.cursor.col /\ term.cursor.col < term.config.cols
        /\ 0 <= term.cursor.row /\ term.cursor.row < term.config.rows

\* C2: while alternate-screen mode is active no step appends a row to the
\* scrollback (it stays as it is, or is emptied by an erase or a reset).
AltScreenNeverArchives ==
    [][(term.in_alternate_screen /\ ~Panicked(term'))
         => (term'.scrollback = term.scrollback \/ term'.scrollback = <<>>)]_vars

\* C3: entering alternate-screen mode, applying writes and leaving it makes
\* the live grid equal, cell for cell, to the grid that was live on entry.
AltRoundTrip ==
    (~Panicked(term) /\ alt_trip # None /\ alt_trip[1].restored # None)
        => alt_trip[1].restored[1] = alt_trip[1].primary

\* C3 witness: a round trip is complete, the primary grid held text, and a
\* write changed the alternate grid in between.
AltRoundTripWitness ==
    /\ ~Panicked(term)
    /\ alt_trip # None
    /\ alt_trip[1].restored # None
    /\ alt_trip[1].wrote
    /\ \E r \in 1..Len(alt_trip[1].primary) :
          \E i \in 1..Len(alt_trip[1].primary[r]) :
             alt_trip[1].primary[r][i].str # " "

\* One step of the scrollback: unchanged, emptied, or one row appended at the
\* end with the older rows kept in order, the oldest leaving when it is full.
FifoStep ==
    LET sb == term.scrollback
        sb2 == term'.scrollback
        cap == term.config.scrollback
    IN Panicked(term') \/ sb2 = sb \/ sb2 = <<>>
       \/ (Len(sb) < cap /\ Len(sb2) = Len(sb) + 1
              /\ SubSeq(sb2, 1, Len(sb)) = sb)
       \/ (Len(sb) = cap /\ cap > 0 /\ Len(sb2) = cap
              /\ SubSeq(sb2, 1, cap - 1) = Tail(sb))

\* C4: the scrollback never holds more rows than its capacity, and archiving
\* into a full scrollback discards the oldest row and keeps the order of the
\* others.
ScrollbackBoundedFifo ==
    /\ [](Len(term.scrollback) <= term.config.scrollback)
    /\ [][FifoStep]_vars

\* C4 witness: a row was archived into a full scrollback of two or more rows
\* whose rows differ.
ScrollbackEvictionWitness ==
    /\ evicted
    /\ term.config.scrollback >= 2
    /\ Len(term.scrollback) = term.config.scrollback
    /\ term.scrollback[1] # term.scrollback[2]

\* C6: no sequence of writes and resizes makes a handler abort on an unsigned
\* underflow or an index out of range.
NeverPanics == ~Panicked(term)

\* A written line as a row of `cols` cells: its characters, then blanks.
PadLine(line, cols) ==
    [i \in 1..cols |->
        IF i <= Len(line) THEN [str |-> line[i], attrs |-> DefaultAttrs]
        ELSE BlankCell]

ChunkingInvisible ==
    pos = Len(stream) =>
        term = write(TerminalNew(term.config.cols, term.config.rows,
                                 term.config.scrollback), stream)

\* C7 witness: a cursor-position sequence was delivered one byte per write
\* and moved the cursor.
ChunkingWitness ==
    /\ stream = Csi(<<"2">>, "H")
    /\ pos = Len(stream)
    /\ steps = Len(stream)
    /\ term.cursor = [col |-> 0, row |-> 1]

\* C8: whenever poll_execution has switched the app to PostExecution, the
\* output pushed for the user holds every byte the child wrote.
ExitShowsAllOutput ==
    mode = "PostExecution" => output = produced

\* C9: the bytes returned by the successive try_read calls on a session,
\* concatenated, are a prefix of the bytes the child produced, whatever the
\* caller's buffer lengths.
ReceivedIsPrefix ==
    IsPrefix(received, produced)

\* C10: try_read can complete in every state of a session, for every buffer
\* length, and each call returns Some(n) and takes one queued chunk if the
\* channel is non-empty and returns None, leaving the channel alone, if it is
\* empty.
TryReadNeverBlocks ==
    /\ [](\A n \in 0..MaxCallerBuf : ENABLED TryRead(n))
    /\ [][\A n \in 0..MaxCallerBuf :
             TryRead(n) =>
                IF chan # <<>>
                THEN /\ last_read'.ret = Some(Min(Len(Head(chan)), n))
                     /\ chan' = Tail(chan)
                ELSE /\ last_read'.ret = None
                     /\ chan' = chan]_vars

\* C10 witness: try_read returned None although the reader thread had already
\* ended, after earlier calls had delivered everything the child wrote.
TryReadWitness ==
    /\ last_read.reader = "done"
    /\ last_read.child = "exited"
    /\ last_read.ret = None
    /\ Len(produced) = MaxOutput
    /\ received = produced

\* C11: every step that drops the PtySession leaves its child not running: a
\* child alive at the drop has been killed.
DropKillsChild ==
    [][(session /\ ~session') => child' # "running"]_vars

\* C11 witness: kill_execution dropped the session of a running child and
\* Drop killed it.
DropKillsChildWitness ==
    /\ last_op = "kill_execution"
    /\ ~session
    /\ killed
    /\ child = "exited"

\* C12: after PtySession::spawn returned an error, no child started by the
\* call is running.
SpawnErrorLeavesNoChild ==
    last_op = "execute_entry:spawn_err" => child # "running"

\* C13: after PtySession::spawn failed inside execute_entry the main loop is
\* still running, in Launcher mode, without a session.
SpawnErrorKeepsLauncher ==
    last_op = "execute_entry:spawn_err" =>
        app_running /\ mode = "Launcher" /\ ~session

\* C14: after a failed write of a key's bytes to the PTY the main loop is
\* still running.
WriteErrorKeepsRunning ==
    last_op = "send_input:err" => app_running

\* C15: a command is started only while no session of an earlier command is
\* held.
OneSessionAtATime ==
    [][(commands' = commands + 1) => ~session]_vars

\* C15 witness: a second command is executing in its own session.
OneSessionWitness ==
    /\ commands = 2
    /\ last_op = "execute_entry:ok"
    /\ session
    /\ mode = "Executing"

\* C16: the status shown after the child ended tells the outcomes apart: exit
\* code c is reported as Exited(c), termination by a signal as Signaled.
ExitStatusDistinguished ==
    mode = "PostExecution" =>
        /\ exit_status # None
        /\ child_status # None
        /\ IF child_status[1].kind = "code"
           THEN exit_status[1] = [tag |-> "Exited", code |-> child_status[1].n]
           ELSE exit_status[1].tag = "Signaled"

\* C17: after scroll_up(n) or scroll_down(n) follow mode is enabled exactly
\* when the resulting offset is 0.
ScrollSetsFollow ==
    [][(ScrollUp \/ ScrollDown) =>
          (term'.follow_mode <=> term'.scroll_offset = 0)]_vars

\* C18: the view offset never exceeds the scrollback length.
ScrollOffsetInRange ==
    /\ term.scroll_offset >= 0
    /\ term.scroll_offset <= Len(term.scrollback)

\* C19: a write sets the view offset to 0 if follow mode is enabled, and
\* leaves the view offset and the follow flag alone if it is disabled.
WriteRespectsFollow ==
    [][WriteView =>
          IF term.follow_mode
          THEN term'.scroll_offset = 0
          ELSE /\ term'.scroll_offset = term.scroll_offset
               /\ term'.follow_mode = term.follow_mode]_vars

\* C20: the terminal after a write of ESC c equals a newly created terminal
\* of the same dimensions and scrollback capacity.
FullResetIsFresh ==
    [][(steps' = steps + 1 /\ term' = write(term, <<"ESC", "c">>)) =>
          term' = TerminalNew(term.config.cols, term.config.rows,
                              term.config.scrollback)]_vars

\* The cell at row r, column c of the live grid (0-based).
CellAt(t, r, c) == GetCellOrDefault(t.surface.lines[r + 1], c)

\* The cursor is inside the grid and nothing has aborted.
Sane(t) ==
    /\ ~Panicked(t)
    /\ t.cursor.col < t.config.cols
    /\ t.cursor.row < t.config.rows

\* The cells an erase operation covers: kind "K" is erase-in-line, "J" is
\* erase-in-display; sel 0 is to the end, 1 to the start, 2 the whole.
InErased(t, kind, sel, r, c) ==
    LET cr == t.cursor.row
        cc == t.cursor.col
        inLine == /\ r = cr
                  /\ CASE sel = 0 -> c >= cc
                       [] sel = 1 -> c <= cc
                       [] OTHER -> TRUE
    IN IF kind = "K" THEN inLine
       ELSE CASE sel = 0 -> inLine \/ r > cr
              [] sel = 1 -> inLine \/ r < cr
              [] OTHER -> TRUE

\* C21: each erase operation leaves the cells of its range blank with the
\* default attributes and changes no other cell.
ErasesBlankDefault ==
    [][\A kind \in {"K", "J"}, sel \in 0..2 :
          (/\ Sane(term)
           /\ steps' = steps + 1
           /\ term' = write(term, Csi(<<DigitOf(sel)>>, kind)))
          => \A r \in 0..(term.config.rows - 1), c \in 0..(term.config.cols - 1) :
                CellAt(term', r, c) =
                    IF InErased(term, kind, sel, r, c)
                    THEN BlankCell
                    ELSE CellAt(term, r, c)]_vars

\* The cell delete-character(n) should leave at (r, c).
AfterDeleteCharacter(t, n, r, c) ==
    IF r = t.cursor.row /\ c >= t.cursor.col
    THEN IF c + n < t.config.cols THEN CellAt(t, r, c + n) ELSE BlankCell
    ELSE CellAt(t, r, c)

\* The cell delete-line(n) should leave at (r, c).
AfterDeleteLine(t, n, r, c) ==
    IF r >= t.cursor.row
    THEN IF r + n < t.config.rows THEN CellAt(t, r + n, c) ELSE BlankCell
    ELSE CellAt(t, r, c)

\* The cell insert-line(n) should leave at (r, c).
AfterInsertLine(t, n, r, c) ==
    IF r >= t.cursor.row
    THEN IF r - n >= t.cursor.row THEN CellAt(t, r - n, c) ELSE BlankCell
    ELSE CellAt(t, r, c)

\* C22: delete-character shifts the rest of the cursor's row left and blanks
\* its end; delete-line and insert-line shift the rows from the cursor row
\* up and down and blank the vacated rows; nothing else changes.
EditShifts ==
    [][\A n \in 1..2 :
          /\ (/\ Sane(term)
              /\ steps' = steps + 1
              /\ term' = write(term, Csi(<<DigitOf(n)>>, "P")))
             => \A r \in 0..(term.config.rows - 1), c \in 0..(term.config.cols - 1) :
                   CellAt(term', r, c) = AfterDeleteCharacter(term, n, r, c)
          /\ (/\ Sane(term)
              /\ steps' = steps + 1
              /\ term' = write(term, Csi(<<DigitOf(n)>>, "M")))
             => \A r \in 0..(term.config.rows - 1), c \in 0..(term.config.cols - 1) :
                   CellAt(term', r, c) = AfterDeleteLine(term, n, r, c)
          /\ (/\ Sane(term)
              /\ steps' = steps + 1
              /\ term' = write(term, Csi(<<DigitOf(n)>>, "L")))
             => \A r \in 0..(term.config.rows - 1), c \in 0..(term.config.cols - 1) :
                   CellAt(term', r, c) = AfterInsertLine(term, n, r, c)]_vars

\* The erase-in-line and erase-in-display sequences other than
\* erase-scrollback.
OtherErase == { Csi(<<DigitOf(sel)>>, k) : sel \in 0..2, k \in {"K", "J"} }

\* C23: erase-scrollback empties the scrollback and leaves the live grid, the
\* cursor and the pen as they were; every other erase operation leaves the
\* scrollback as it was.
EraseFrames ==
    last_call.op = "write" =>
        LET b == prev_term[1] IN
        /\ last_call.data = Csi(<<"3">>, "J") =>
              /\ term.scrollback = <<>>
              /\ term.surface.lines = b.surface.lines
              /\ term.cursor = b.cursor
              /\ term.current_attrs = b.current_attrs
        /\ last_call.data \in OtherErase =>
              term.scrollback = b.scrollback

\* C23 witness: erase-scrollback was applied to a terminal with an archived
\* row, text on the grid and the cursor away from the origin.
EraseFramesWitness ==
    /\ last_call.op = "write"
    /\ last_call.data = Csi(<<"3">>, "J")
    /\ Len(prev_term[1].scrollback) > 0
    /\ prev_term[1].cursor # [col |-> 0, row |-> 0]
    /\ \E r \in 0..(term.config.rows - 1), c \in 0..(term.config.cols - 1) :
          CellAt(term, r, c).str = "a"

\* The cursor is inside the grid, the grid has the configured size, the
\* parser is between sequences and nothing has aborted.
Settled(t) ==
    /\ Sane(t)
    /\ t.surface.width = t.config.cols
    /\ t.surface.height = t.config.rows
    /\ t.parser = ParserNew

\* The cell at (r, c) after ch was printed at the cursor of t, before any
\* scrolling.
PrintedCell(t, ch, r, c) ==
    IF r = t.cursor.row /\ c = t.cursor.col
    THEN [str |-> ch, attrs |-> t.current_attrs]
    ELSE CellAt(t, r, c)

\* C24 as stated, its second half: from column 0 of a row that is not the
\* last, after cols characters and one more the extra character is at column
\* 0 of the next row and the cursor at column 1 of that row.
WrapAfterFullRow ==
    (Settled(term) /\ term.cursor.col = 0
                   /\ term.cursor.row + 1 < term.config.rows) =>
        LET t2 == write(term, [i \in 1..term.config.cols |-> "a"] \o <<"b">>)
            r == term.cursor.row
        IN /\ CellAt(t2, r + 1, 0).str = "b"
           /\ t2.cursor = [col |-> 1, row |-> r + 1]

\* C24 amended: a print at column cols-1 of row r writes the character there
\* and moves the cursor to column 0 of row r+1, or, on the last row, scrolls
\* the grid by one row and leaves the cursor at column 0 of the last row; a
\* print left of column cols-1 advances the cursor by one column.  On a grid
\* of two or more columns, cols characters from column 0 of a row that is not
\* the last followed by one more leave the extra character at column 0 of the
\* next row and the cursor at column 1 of it.
PrintWraps ==
    /\ (last_call.op = "write" /\ last_call.data \in {<<"a">>, <<"b">>}
                               /\ Settled(prev_term[1])) =>
          LET b == prev_term[1]
              ch == last_call.data[1]
              r == b.cursor.row
              c == b.cursor.col
              rows == b.config.rows
              cols == b.config.cols
          IN IF c < cols - 1
             THEN /\ term.cursor = [col |-> c + 1, row |-> r]
                  /\ \A i \in 0..(rows - 1), j \in 0..(cols - 1) :
                        CellAt(term, i, j) = PrintedCell(b, ch, i, j)
                  /\ term.scrollback = b.scrollback
             ELSE IF r < rows - 1
             THEN /\ term.cursor = [col |-> 0, row |-> r + 1]
                  /\ \A i \in 0..(rows - 1), j \in 0..(cols - 1) :
                        CellAt(term, i, j) = PrintedCell(b, ch, i, j)
                  /\ term.scrollback = b.scrollback
             ELSE /\ term.cursor = [col |-> 0, row |-> rows - 1]
                  /\ \A i \in 0..(rows - 1), j \in 0..(cols - 1) :
                        CellAt(term, i, j) =
                            IF i = rows - 1 THEN BlankCell
                            ELSE PrintedCell(b, ch, i + 1, j)
                  /\ Len(term.scrollback) =
                        Min(Len(b.scrollback) + 1, b.config.scrollback)
    /\ (Settled(term) /\ term.cursor.col = 0
                      /\ term.cursor.row + 1 < term.config.rows
                      /\ term.config.cols >= 2) =>
          LET t2 == write(term, [i \in 1..term.config.cols |-> "a"] \o <<"b">>)
              r == term.cursor.row
          IN /\ CellAt(t2, r + 1, 0).str = "b"
             /\ t2.cursor = [col |-> 1, row |-> r + 1]

\* C24 witness: a character was printed at the last column of a row that is
\* not the last, on a grid of two or more columns, and the cursor went to
\* column 0 of the next row.
PrintWrapsWitness ==
    /\ last_call.op = "write"
    /\ last_call.data = <<"b">>
    /\ Settled(prev_term[1])
    /\ prev_term[1].config.cols >= 2
    /\ prev_term[1].cursor.col = prev_term[1].config.cols - 1
    /\ prev_term[1].cursor.row + 1 < prev_term[1].config.rows
    /\ term.cursor = [col |-> 0, row |-> prev_term[1].cursor.row + 1]

\* C25: CSI R ; C H places the cursor at row min(max(R,1)-1, rows-1) and
\* column min(max(C,1)-1, cols-1).
PositionClamps ==
    (last_call.op = "write" /\ ~Panicked(prev_term[1])
                            /\ prev_term[1].parser = ParserNew) =>
        \A R \in 0..MaxParam, C \in 0..MaxParam :
            last_call.data = Csi(<<DigitOf(R), ";", DigitOf(C)>>, "H") =>
                term.cursor =
                    [row |-> Min(Max(R, 1) - 1, prev_term[1].config.rows - 1),
                     col |-> Min(Max(C, 1) - 1, prev_term[1].config.cols - 1)]

\* C25 witness: a position beyond both edges was requested on a grid of more
\* than one row and column, and the cursor is on the last row and column.
PositionClampsWitness ==
    /\ last_call.op = "write"
    /\ last_call.data = Csi(<<DigitOf(MaxParam), ";", DigitOf(MaxParam)>>, "H")
    /\ prev_term[1].parser = ParserNew
    /\ ~Panicked(prev_term[1])
    /\ term.config.rows > 1 /\ term.config.cols > 1
    /\ MaxParam > term.config.rows /\ MaxParam > term.config.cols
    /\ term.cursor = [row |-> term.config.rows - 1, col |-> term.config.cols - 1]

\* C26: a relative move by N from an in-bounds cursor changes only the moved
\* coordinate, stops at the edge, and changes neither the grid nor the
\* scrollback.
RelativeMoveStops ==
    (last_call.op = "write" /\ Sane(prev_term[1])
                            /\ prev_term[1].parser = ParserNew) =>
        LET b == prev_term[1] IN
        \A N \in 1..MaxParam :
            /\ last_call.data = Csi(<<DigitOf(N)>>, "A") =>
                  /\ term.cursor = [b.cursor EXCEPT !.row = Max(b.cursor.row - N, 0)]
                  /\ term.surface.lines = b.surface.lines
                  /\ term.scrollback = b.scrollback
            /\ last_call.data = Csi(<<DigitOf(N)>>, "B") =>
                  /\ term.cursor = [b.cursor EXCEPT
                                      !.row = Min(b.cursor.row + N, b.config.rows - 1)]
                  /\ term.surface.lines = b.surface.lines
                  /\ term.scrollback = b.scrollback
            /\ last_call.data = Csi(<<DigitOf(N)>>, "D") =>
                  /\ term.cursor = [b.cursor EXCEPT !.col = Max(b.cursor.col - N, 0)]
                  /\ term.surface.lines = b.surface.lines
                  /\ term.scrollback = b.scrollback
            /\ last_call.data = Csi(<<DigitOf(N)>>, "C") =>
                  /\ term.cursor = [b.cursor EXCEPT
                                      !.col = Min(b.cursor.col + N, b.config.cols - 1)]
                  /\ term.surface.lines = b.surface.lines
                  /\ term.scrollback = b.scrollback

\* C26 witness: a move down by two from row 0 of a three-row grid with text
\* on it stopped on the last row, in the same column.
RelativeMoveStopsWitness ==
    /\ last_call.op = "write"
    /\ last_call.data = Csi(<<DigitOf(2)>>, "B")
    /\ Sane(prev_term[1])
    /\ prev_term[1].parser = ParserNew
    /\ prev_term[1].config.rows = 3
    /\ prev_term[1].cursor.row = 0
    /\ prev_term[1].cursor.col = 1
    /\ CellAt(prev_term[1], 0, 0).str = "a"
    /\ term.cursor = [row |-> 2, col |-> 1]

RECURSIVE LastMode1(_)
\* The mode given by the most recent set (h) or reset (l) of DEC private mode
\* 1 among the pieces written, off when there is none.
LastMode1(w) ==
    IF w = <<>> THEN FALSE
    ELSE IF w[Len(w)] = Csi(<<"?", "1">>, "h") THEN TRUE
    ELSE IF w[Len(w)] = Csi(<<"?", "1">>, "l") THEN FALSE
    ELSE LastMode1(SubSeq(w, 1, Len(w) - 1))

ArrowKinds == {"UpArrow", "DownArrow", "LeftArrow", "RightArrow"}

\* C27 as stated: encode_key of an arrow key, whatever the modifiers, is
\* ESC [ final when the last set/reset of mode 1 was a reset (or there was
\* none) and ESC O final when it was a set, and the terminal is unchanged.
ArrowEncodingByMode ==
    (last_call.op = "encode_key" /\ last_call.key.kind \in ArrowKinds) =>
        /\ last_call.ret = <<"ESC", IF LastMode1(written) THEN "O" ELSE "[",
                             ArrowFinal(last_call.key)>>
        /\ term = prev_term[1]

\* C27 amended: encode_key of an arrow key without modifiers is ESC [ final
\* when the last set/reset of mode 1 processed by write() was a reset (or
\* there was none) and ESC O final when it was a set; with a modifier it is
\* ESC [ 1 ; m final in both modes; encode_key leaves the terminal unchanged.
ArrowEncodingUnmodified ==
    (last_call.op = "encode_key" /\ last_call.key.kind \in ArrowKinds) =>
        /\ last_call.mods = {} =>
              last_call.ret = <<"ESC", IF LastMode1(written) THEN "O" ELSE "[",
                                ArrowFinal(last_call.key)>>
        /\ last_call.mods # {} =>
              last_call.ret = <<"ESC", "[", "1", ";",
                                DigitOf(1 + encode_modifiers(last_call.mods)),
                                ArrowFinal(last_call.key)>>
        /\ term = prev_term[1]

\* C27 witness: mode 1 was set, a full reset followed, and the up arrow
\* without modifiers was encoded as ESC O A.
ArrowEncodingWitness ==
    /\ last_call.op = "encode_key"
    /\ last_call.key.kind = "UpArrow"
    /\ last_call.mods = {}
    /\ written = << Csi(<<"?", "1">>, "h"), <<"ESC", "c">> >>
    /\ last_call.ret = <<"ESC", "O", "A">>

\* C28: a key event whose code convert_keycode has no arm for is encoded as
\* nothing and nothing is written to the child.
UnmappedKeySendsNothing ==
    (last_call.op = "handle_executing_keys"
        /\ last_call.code.kind \in {"Media", "KeypadBegin"}) =>
        /\ last_call.encoded = <<>>
        /\ last_call.sent = <<>>

\* C29: once the session is dropped the reader thread eventually ends; it
\* ends only at end-of-stream or a read error, or a send that finds the
\* receiver gone, the first such send ends it, and after the drop nothing is
\* added to the channel.
ReaderEndsAfterDrop ==
    /\ (~session) ~> (reader_pc = "done")
    /\ [][(reader_pc # "done" /\ reader_pc' = "done") =>
             (ReaderEof \/ (ReaderSend /\ ~session))]_vars
    /\ [][(ReaderSend /\ ~session) => reader_pc' = "done"]_vars
    /\ [][(~session) => (chan' = chan \/ chan' = <<>>)]_vars
    /\ [][reader_pc = "done" => reader_pc' = "done"]_vars

\* C29 witness: the session was dropped while the child ran and output was
\* still undelivered, and the reader thread has ended.
ReaderEndsAfterDropWitness ==
    /\ ~session
    /\ killed
    /\ reader_pc = "done"
    /\ Len(received) < Len(produced)

\* C30: the channel holds a bounded number of chunks, with a bound that does
\* not depend on how much the child writes: with a child that writes up to
\* MaxOutput bytes, fewer than MaxOutput chunks are ever queued.
ChannelBounded == Len(chan) < MaxOutput

\* C31: with view offset o and scrollback length L, 0 <= o <= L, get_row(v)
\* is archived row L-o+v when v < o and otherwise live-grid row v-o (its
\* first cols cells); with o = 0 it is live-grid row v.
ViewportRows ==
    last_call.op = "get_row" =>
        LET b == prev_term[1]
            o == b.scroll_offset
            L == Len(b.scrollback)
            v == last_call.v
        IN (o <= L) =>
              IF v < o
              THEN last_call.ret = b.scrollback[L - o + v + 1]
              ELSE (v - o < Len(b.surface.lines)) =>
                      last_call.ret =
                          [i \in 1..b.config.cols |->
                              GetCellOrDefault(b.surface.lines[v - o + 1], i - 1)]

\* C31 witness: with two archived rows and the view one row up, viewport row
\* 0 is the newest archived row, which holds text.
ViewportRowsWitness ==
    /\ last_call.op = "get_row"
    /\ last_call.v = 0
    /\ prev_term[1].scroll_offset = 1
    /\ Len(prev_term[1].scrollback) = 2
    /\ prev_term[1].scrollback[1] # prev_term[1].scrollback[2]
    /\ last_call.ret = prev_term[1].scrollback[2]
    /\ last_call.ret[1].str = "a"

\* C32: get_visible_rows returns exactly rows rows and every row returned by
\* get_row or get_visible_rows has exactly cols cells, for the configured
\* dimensions at the time of the call.
RowsHaveConfiguredSize ==
    /\ last_call.op = "get_row" =>
          Len(last_call.ret) = prev_term[1].config.cols
    /\ last_call.op = "get_visible_rows" =>
          /\ Len(last_call.ret) = prev_term[1].config.rows
          /\ \A r \in 1..Len(last_call.ret) :
                Len(last_call.ret[r]) = prev_term[1].config.cols

\* C33: after pushes alone, the lines and the partial line are those of one
\* push of the concatenated bytes.
PushSplitInvisible ==
    written.pure =>
        LET whole == output_push(OutputBufferNew(output.max_lines), written.bytes)
        IN /\ output.lines = whole.lines
           /\ output.partial_line = whole.partial_line

\* The last n elements of a sequence.
LastN(q, n) == SubSeq(q, Len(q) - Min(n, Len(q)) + 1, Len(q))

\* C34: the buffer holds at most max_lines lines, they are the most recent
\* completed lines in push order, and the scroll offset is at most the number
\* of lines held.
BufferKeepsNewest ==
    /\ Len(output.lines) <= output.max_lines
    /\ output.lines = LastN(stream.lines, output.max_lines)
    /\ output.partial_line = stream.partial_line
    /\ output.scroll_offset <= Len(output.lines)

\* C34 witness: three lines were completed on a buffer of two lines, which
\* holds the newest two, and the view is scrolled down.
BufferKeepsNewestWitness ==
    /\ output.max_lines = 2
    /\ Len(stream.lines) = 3
    /\ stream.lines[1] # stream.lines[2]
    /\ output.lines = SubSeq(stream.lines, 2, 3)
    /\ output.scroll_offset > 0

\* C35: the alternate-screen flag is set exactly when the stash holds a
\* grid; enabling the mode while it is active and disabling it while it is
\* inactive leave the terminal as it was.
AltFlagMatchesStash ==
    /\ term.in_alternate_screen <=> (term.saved_primary # None)
    /\ (last_call.op = "write" /\ ~Panicked(prev_term[1])
                               /\ prev_term[1].parser = ParserNew) =>
          /\ (last_call.data = Csi(<<"?", "4", "7">>, "h")
                 /\ prev_term[1].in_alternate_screen) => term = prev_term[1]
          /\ (last_call.data = Csi(<<"?", "4", "7">>, "l")
                 /\ ~prev_term[1].in_alternate_screen) => term = prev_term[1]

\* C35 witness: alternate mode was enabled a second time after text was
\* written to the alternate grid, and the text is still there.
AltFlagMatchesStashWitness ==
    /\ last_call.op = "write"
    /\ last_call.data = Csi(<<"?", "4", "7">>, "h")
    /\ prev_term[1].in_alternate_screen
    /\ prev_term[1].parser = ParserNew
    /\ ~Panicked(prev_term[1])
    /\ CellAt(prev_term[1], 0, 0).str = "a"
    /\ term.in_alternate_screen
    /\ term.saved_primary # None
    /\ CellAt(term, 0, 0).str = "a"

\* C36: follow mode on implies view offset 0.
FollowMeansBottom == term.follow_mode => term.scroll_offset = 0

\* C36 witness: follow mode was switched on while the view was scrolled up
\* into a non-empty scrollback, and the view is at the bottom.
FollowMeansBottomWitness ==
    /\ last_call.op = "set_follow_mode"
    /\ last_call.follow
    /\ ~prev_term[1].follow_mode
    /\ prev_term[1].scroll_offset > 0
    /\ prev_term[1].scroll_offset <= Len(prev_term[1].scrollback)
    /\ term = set_follow_mode(prev_term[1], TRUE)
    /\ term.follow_mode
    /\ term.scroll_offset = 0

\* C37: between app operations, while the main loop runs, a PtySession is
\* held exactly when the mode is Executing.
SessionIffExecuting ==
    (app_running /\ main_pc = "idle") => (session <=> (mode = "Executing"))

\* C37 witness: the exit poll found the child gone; the mode is
\* PostExecution and the session has been dropped.
SessionIffExecutingWitness ==
    /\ app_running
    /\ main_pc = "idle"
    /\ last_op = "poll_execution:exited"
    /\ mode = "PostExecution"
    /\ ~session
    /\ commands > 0

\* C38: the live grid has exactly the configured number of rows and columns.
GridMatchesConfig ==
    ~Panicked(term) =>
        /\ term.surface.width = term.config.cols
        /\ term.surface.height = term.config.rows
        /\ Len(term.surface.lines) = term.config.rows

\* C39: while executing with the view at the bottom, a press of a character
\* key without Ctrl writes that character to the child.
PrintableKeysForwarded ==
    (last_call.op = "handle_executing_keys"
        /\ last_call.code.kind = "Char"
        /\ "CONTROL" \notin last_call.mods
        /\ prev_term[1].scroll_offset = 0) =>
        last_call.sent = <<last_call.code.c>>

\* C40: the mode moves Launcher -> Executing -> PostExecution -> Launcher.
\* PostExecution is entered only from Executing, by the exit poll finding the
\* child exited; a new command is counted each time Executing is entered;
\* Executing is left for Launcher only by kill_execution; dismiss_output
\* leads from PostExecution to Launcher and changes nothing in any other mode.
ModeLifecycle ==
    [][/\ (mode' = "PostExecution" /\ mode # "PostExecution") =>
            /\ mode = "Executing"
            /\ child = "exited"
            /\ main_pc = "wait"
            /\ last_op' = "poll_execution:exited"
       /\ (mode' = "Executing" /\ mode # "Executing") =>
            /\ mode = "Launcher"
            /\ commands' = commands + 1
       /\ (mode = "Executing" /\ mode' # mode) =>
            \/ mode' = "PostExecution"
            \/ mode' = "Launcher" /\ last_op' = "kill_execution"
       /\ KillExecution => (mode = "Executing" /\ mode' = "Launcher")
       /\ (mode = "PostExecution" /\ mode' # mode) =>
            /\ mode' = "Launcher"
            /\ last_op' = "dismiss_output"
       /\ (last_op' = "dismiss_output" /\ mode' # mode) =>
            (mode = "PostExecution" /\ mode' = "Launcher")
       /\ (dismiss_output /\ mode # "PostExecution") =>
            /\ mode' = mode
            /\ output' = output
            /\ exit_status' = exit_status
            /\ session' = session
      ]_vars

\* A command ran, its output was read, the exit poll ended it and
\* dismiss_output cleared the output and went back to the launcher.
ModeLifecycleWitness ==
    /\ mode = "Launcher"
    /\ last_op = "dismiss_output"
    /\ commands = 1
    /\ received # <<>>
    /\ output = <<>>

====
